---- MODULE Spec2Model ----
(***************************************************************************)
(* Metered search gateway (serp-backend): the two search handlers          *)
(* (GET /api/search -> ApiController.search, POST /api/search ->           *)
(* SearchController.search) behind their middleware, the credit ledger     *)
(* rows they touch, the creation of payment intents and the Stripe webhook *)
(* that settles payments into credits.                                     *)
(*                                                                         *)
(* Every await of a handler is a point where another handler may run, so   *)
(* each action below is the code between two awaits: it starts with the    *)
(* database statement or network answer the handler was waiting for and    *)
(* runs up to the next await or to the response. The middleware in front   *)
(* of a handler runs in the step that receives the request, up to the      *)
(* first await.                                                            *)
(*                                                                         *)
(* Components are also followed on their own, with the handlers at rest:   *)
(* the upstream call with the instance registry (SpecProxy), the two       *)
(* in-memory rate limiters (SpecLimiter), the pricing table with the plan  *)
(* lists quoted to clients (SpecPricing) and the timer of an upstream      *)
(* attempt (SpecAttempt). SpecRoute runs the search requests of both       *)
(* application files against limiters close to their ceiling, SpecSettle   *)
(* the webhook deliveries with failing statements and redelivery.          *)
(***************************************************************************)
EXTENDS Integers, Sequences, FiniteSets, TLC

\* ------------------------------------------------------------------ bounds
MaxReqs == 2
MaxDeliveries == 2
MaxInitBalance == 1
\* handlers (search requests, webhook deliveries and payment-intent
\* creations together) that are run
MaxStarted == 2

Reqs == 1..MaxReqs
Deliveries == 1..MaxDeliveries

\* ------------------------------------------------------- program constants
\* routes/api.ts validateApiKey: every GET caller is given this organization
TempOrg == "temp-org"
OtherOrg == "org-1"
Orgs == {TempOrg, OtherOrg}

\* JavaScript undefined, for string-valued inputs
Undefined == "undefined"

\* searchController.ts: if (searchQuery.length > 500)
MaxQueryLength == 500
\* routes/api.ts checkRateLimit: (req as any).creditBalance = 1000
StubCreditBalance == 1000

\* apiController.ts SUPPORTED_ENGINES (keys)
SUPPORTED_ENGINES ==
  {"google", "duckduckgo", "brave", "startpage", "mojeek", "yahoo", "yep",
   "searx", "qwant"}

\* the properties every object literal inherits from Object.prototype
ObjectPrototypeNames ==
  {"constructor", "toString", "toLocaleString", "valueOf", "hasOwnProperty",
   "isPrototypeOf", "propertyIsEnumerable", "__proto__", "__defineGetter__",
   "__defineSetter__", "__lookupGetter__", "__lookupSetter__"}

\* JavaScript's `name in object` for an object literal with these own keys:
\* true for the own keys and for the inherited properties
hasProperty(name, ownKeys) == name \in ownKeys \cup ObjectPrototypeNames

\* The names with capitals that are followed, each with its lower-case
\* form: the engine names and the inherited property names, capitalised, in
\* upper case and in their usual spelling
LowerCaseOf ==
  ("Google" :> "google") @@ ("GOOGLE" :> "google") @@ ("Bing" :> "bing") @@
  ("BING" :> "bing") @@ ("Duckduckgo" :> "duckduckgo") @@
  ("DUCKDUCKGO" :> "duckduckgo") @@ ("Brave" :> "brave") @@
  ("BRAVE" :> "brave") @@ ("Startpage" :> "startpage") @@
  ("STARTPAGE" :> "startpage") @@ ("Mojeek" :> "mojeek") @@
  ("MOJEEK" :> "mojeek") @@ ("Yahoo" :> "yahoo") @@ ("YAHOO" :> "yahoo") @@
  ("Yep" :> "yep") @@ ("YEP" :> "yep") @@ ("Searx" :> "searx") @@
  ("SEARX" :> "searx") @@ ("Qwant" :> "qwant") @@ ("QWANT" :> "qwant") @@
  ("DuckDuckGo" :> "duckduckgo") @@ ("StartPage" :> "startpage") @@
  ("CONSTRUCTOR" :> "constructor") @@ ("Constructor" :> "constructor") @@
  ("toString" :> "tostring") @@ ("TOSTRING" :> "tostring") @@
  ("ToString" :> "tostring") @@ ("toLocaleString" :> "tolocalestring") @@
  ("TOLOCALESTRING" :> "tolocalestring") @@
  ("ToLocaleString" :> "tolocalestring") @@ ("valueOf" :> "valueof") @@
  ("VALUEOF" :> "valueof") @@ ("ValueOf" :> "valueof") @@
  ("hasOwnProperty" :> "hasownproperty") @@
  ("HASOWNPROPERTY" :> "hasownproperty") @@
  ("HasOwnProperty" :> "hasownproperty") @@
  ("isPrototypeOf" :> "isprototypeof") @@
  ("ISPROTOTYPEOF" :> "isprototypeof") @@
  ("IsPrototypeOf" :> "isprototypeof") @@
  ("propertyIsEnumerable" :> "propertyisenumerable") @@
  ("PROPERTYISENUMERABLE" :> "propertyisenumerable") @@
  ("PropertyIsEnumerable" :> "propertyisenumerable") @@
  ("__PROTO__" :> "__proto__") @@
  ("__defineGetter__" :> "__definegetter__") @@
  ("__DEFINEGETTER__" :> "__definegetter__") @@
  ("__defineSetter__" :> "__definesetter__") @@
  ("__DEFINESETTER__" :> "__definesetter__") @@
  ("__lookupGetter__" :> "__lookupgetter__") @@
  ("__LOOKUPGETTER__" :> "__lookupgetter__") @@
  ("__lookupSetter__" :> "__lookupsetter__") @@
  ("__LOOKUPSETTER__" :> "__lookupsetter__")

\* String.prototype.toLowerCase: a name without capitals is its own lower
\* case
toLowerCase(name) ==
  IF name \in DOMAIN LowerCaseOf THEN LowerCaseOf[name] ELSE name

\* the object literal creditCosts of ApiController.search and of
\* SearchService.getCreditCost
creditCosts ==
  ("google" :> 1) @@ ("bing" :> 2) @@ ("duckduckgo" :> 2) @@ ("brave" :> 3)

\* creditCosts[engine.toLowerCase()] || 1. The lookup finds an own key (a
\* number), an inherited property (a function or an object, which is truthy
\* and so is the result; number is FALSE then) or nothing (undefined, and
\* the result is 1).
creditCost(engine) ==
  LET key == toLowerCase(engine)
  IN IF key \in DOMAIN creditCosts
       THEN [number |-> TRUE, value |-> creditCosts[key]]
     ELSE IF key \in ObjectPrototypeNames
       THEN [number |-> FALSE, value |-> 0]
     ELSE [number |-> TRUE, value |-> 1]

\* The amounts in cents, of those that fall in a tier, on which
\* Math.floor((amountUsd / rate) * 1000) in IEEE 754 double arithmetic is one
\* less than the floor of the exact quotient: the exact quotient is a whole
\* number there and the two rounded operations land just below it. On every
\* other amount of a tier the two floors are equal. No whole-dollar amount
\* is among them.
FloatShortfall ==
  {502, 506, 510, 512, 514, 522, 526, 530, 542, 546, 552, 556,
   560, 562, 564, 572, 576, 580, 592, 596, 602, 606, 610, 612,
   614, 622, 626, 630, 642, 646, 652, 654, 660, 664, 672, 674,
   684, 692, 702, 704, 710, 714, 722, 724, 734, 742, 752, 754,
   760, 764, 772, 774, 784, 792, 802, 804, 810, 812, 820, 824,
   828, 834, 842, 844, 852, 854, 860, 862, 870, 874, 878, 884,
   892, 894, 902, 904, 910, 912, 920, 924, 928, 934, 942, 944,
   952, 954, 960, 962, 970, 974, 978, 984, 992, 994, 1002, 1004,
   1010, 1012, 1020, 1024, 1028, 1034, 1042, 1044, 1052, 1054, 1060, 1062,
   1070, 1074, 1078, 1084, 1092, 1094, 1102, 1104, 1110, 1112, 1120, 1124,
   1128, 1134, 1142, 1144, 1152, 1154, 1160, 1162, 1170, 1174, 1178, 1184,
   1192, 1194, 1202, 1204, 1210, 1212, 1220, 1224, 1228, 1234, 1242, 1244,
   1252, 1254, 1260, 1262, 1270, 1274, 1278, 1282, 1284, 1292, 1294, 1298,
   1302, 1304, 1308, 1318, 1320, 1328, 1334, 1344, 1348, 1354, 1358, 1368,
   1370, 1378, 1384, 1394, 1398, 1404, 1408, 1418, 1420, 1428, 1434, 1444,
   1448, 1454, 1458, 1468, 1470, 1478, 1484, 1494, 1498, 1504, 1508, 1518,
   1520, 1528, 1534, 1544, 1548, 1554, 1558, 1568, 1570, 1578, 1584, 1594,
   1598, 1604, 1606, 1608, 1618, 1620, 1624, 1634, 1638, 1640, 1648, 1654,
   1656, 1658, 1668, 1670, 1674, 1684, 1688, 1690, 1698, 1704, 1706, 1708,
   1718, 1720, 1724, 1734, 1738, 1740, 1748, 1754, 1756, 1758, 1768, 1770,
   1774, 1784, 1788, 1790, 1798, 1804, 1806, 1808, 1818, 1820, 1824, 1834,
   1838, 1840, 1848, 1854, 1856, 1858, 1868, 1870, 1874, 1884, 1888, 1890,
   1898, 1904, 1906, 1908, 1918, 1920, 1924, 1934, 1938, 1940, 1948, 1954,
   1956, 1958, 1968, 1970, 1974, 1984, 1988, 1990, 1998, 2004, 2006, 2008,
   2018, 2020, 2024, 2034, 2038, 2040, 2048, 2054, 2056, 2058, 2068, 2070,
   2074, 2084, 2088, 2090, 2098, 2104, 2106, 2108, 2118, 2120, 2124, 2134,
   2138, 2140, 2148, 2154, 2156, 2158, 2168, 2170, 2174, 2184, 2188, 2190,
   2198, 2204, 2206, 2208, 2218, 2220, 2224, 2234, 2238, 2240, 2248, 2254,
   2256, 2258, 2268, 2270, 2274, 2284, 2288, 2290, 2298, 2304, 2306, 2308,
   2318, 2320, 2324, 2334, 2338, 2340, 2348, 2354, 2356, 2358, 2368, 2370,
   2374, 2384, 2388, 2390, 2398, 2404, 2406, 2408, 2418, 2420, 2424, 2434,
   2438, 2440, 2448, 2454, 2456, 2458, 2468, 2470, 2474, 2484, 2488, 2490,
   2498, 2504, 2506, 2508, 2518, 2520, 2524, 2534, 2538, 2540, 2548, 2554,
   2556, 2558, 2564, 2566, 2568, 2574, 2584, 2586, 2588, 2590, 2594, 2596,
   2604, 2606, 2608, 2614, 2616, 2618, 2636, 2638, 2640, 2646, 2656, 2658,
   2666, 2668, 2686, 2688, 2690, 2696, 2706, 2708, 2716, 2718, 2736, 2738,
   2740, 2746, 2756, 2758, 2766, 2768, 2786, 2788, 2790, 2796, 2806, 2808,
   2816, 2818, 2836, 2838, 2840, 2846, 2856, 2858, 2866, 2868, 2886, 2888,
   2890, 2896, 3029, 3068, 3133, 3198, 3315, 3341, 3354, 3380, 3393, 3419,
   3458, 3523, 3640, 3666, 3679, 3705, 3718, 3744, 3783, 3848, 3926, 3965,
   3991, 4004, 4030, 4043, 4069, 4108, 4173, 4186, 4199, 4251, 4316, 4433,
   4498, 4511, 4576, 4641, 4758, 4823, 4836, 4901, 4966, 5083, 5148, 5161,
   5226, 5291, 5330, 5408, 5421, 5473, 5486, 5551, 5616, 5655, 5733, 5746,
   5798, 5811, 5876, 5941, 5980, 6058, 6071, 6123, 6136, 6201, 6266, 6305,
   6383, 6396, 6435, 6461, 6513, 6591, 6630, 6682, 6708, 6721, 6760, 6786,
   6838, 6916, 6955, 7007, 7033, 7046, 7085, 7111, 7163, 7241, 7280, 7332,
   7358, 7371, 7410, 7436, 7488, 7527, 7566, 7605, 7657, 7683, 7696, 7735,
   7761, 7813, 7852, 7891, 7930, 7982, 8008, 8021, 8060, 8086, 8138, 8177,
   8216, 8255, 8307, 8333, 8346, 8372, 8398, 8463, 8502, 8541, 8632, 8671,
   8697, 8827, 8866, 8957, 8996, 9022, 9152, 9191, 9282, 9321, 9347, 9477,
   9516, 9607, 9646, 9672, 9802, 9841, 10008, 10035, 10071, 10107, 10116, 10161,
   10188, 10233, 10260, 10296, 10332, 10341, 10386, 10413, 10458, 10485, 10521, 10557,
   10566, 10611, 10638, 10683, 10710, 10746, 10782, 10791, 10836, 10863, 10908, 10935,
   10971, 11007, 11016, 11061, 11088, 11133, 11160, 11196, 11232, 11241, 11286, 11313,
   11358, 11385, 11421, 11457, 11466, 11511, 11538, 11547, 11583, 11628, 11646, 11673,
   11682, 11727, 11763, 11772, 11871, 11907, 11952, 11997, 12096, 12132, 12177, 12222,
   12321, 12357, 12402, 12447, 12546, 12582, 12627, 12672, 12771, 12807, 12870, 12897,
   12942, 12951, 13032, 13095, 13122, 13167, 13176, 13257, 13320, 13347, 13392, 13401,
   13482, 13545, 13572, 13617, 13626, 13707, 13770, 13797, 13842, 13851, 13932, 13995,
   14022, 14067, 14076, 14157, 14220, 14247, 14292, 14301, 14382, 14445, 14472, 14517,
   14526, 14607, 14670, 14697, 14742, 14751, 14832, 14895, 14922, 14967, 14976, 15057,
   15120, 15147, 15192, 15201, 15282, 15345, 15372, 15417, 15426, 15507, 15570, 15597,
   15642, 15651, 15732, 15795, 15822, 15867, 15876, 15957, 16020, 16047, 16092, 16101,
   16182, 16245, 16272, 16317, 16326, 16407, 16470, 16497, 16542, 16551, 16632, 16695,
   16722, 16767, 16776, 16857, 16920, 16947, 16992, 17001, 17082, 17145, 17172, 17217,
   17226, 17289, 17307, 17316, 17370, 17397, 17442, 17451, 17514, 17532, 17541, 17595,
   17622, 17667, 17676, 17739, 17757, 17766, 17820, 17847, 17892, 17901, 17964, 17982,
   17991, 18045, 18072, 18117, 18126, 18189, 18207, 18216, 18270, 18297, 18342, 18351,
   18414, 18432, 18441, 18495, 18522, 18567, 18576, 18639, 18657, 18666, 18720, 18747,
   18792, 18801, 18864, 18882, 18891, 18945, 18972, 19017, 19026, 19089, 19107, 19116,
   19170, 19197, 19242, 19251, 19314, 19332, 19341, 19395, 19422, 19467, 19476, 19539,
   19557, 19566, 19620, 19647, 19692, 19701, 19764, 19782, 19791, 19845, 19872, 19917,
   19926, 19989, 20007, 20016, 20070, 20097, 20142, 20151, 20214, 20232, 20241, 20295,
   20322, 20367, 20376, 20439, 20457, 20466, 20520, 20547, 20592, 20601, 20664, 20682,
   20691, 20745, 20772, 20817, 20826, 20889, 20907, 20916, 20970, 20997, 21042, 21051,
   21114, 21132, 21141, 21195, 21222, 21267, 21276, 21339, 21357, 21366, 21420, 21447,
   21492, 21501, 21564, 21582, 21591, 21645, 21672, 21717, 21726, 21789, 21807, 21816,
   21870, 21897, 21942, 21951, 22014, 22032, 22041, 22095, 22122, 22167, 22176, 22239,
   22257, 22266, 22320, 22347, 22392, 22401, 22464, 22482, 22491, 22545, 22572, 22617,
   22626, 22689, 22707, 22716, 22770, 22797, 22842, 22851, 22914, 22932, 22941, 22995,
   23022, 23067, 23076, 23094, 23121, 23139, 23166, 23229, 23256, 23292, 23301, 23319,
   23346, 23364, 23391, 23454, 23481, 23517, 23526, 23544, 23571, 23589, 23679, 23742,
   23769, 23814, 23904, 23967, 23994, 24039, 24129, 24192, 24219, 24264, 24354, 24417,
   24444, 24489, 24579, 24642, 24669, 24714, 24804, 24867, 24894, 24939, 25029, 25092,
   25119, 25164, 25254, 25317, 25344, 25389, 25479, 25542, 25569, 25614, 25659, 25677,
   25740, 25794, 25839, 25884, 25902, 25965, 26019, 26064, 26109, 26127, 26190, 26244,
   26289, 26334, 26352, 26415, 26469, 26514, 26559, 26577, 26640, 26694, 26739, 26784,
   26802, 26865, 26919, 26964, 27009, 27027, 27090, 27144, 27189, 27234, 27252, 27315,
   27369, 27414, 27459, 27477, 27540, 27594, 27639, 27684, 27702, 27765, 27819, 27864,
   27909, 27927, 27990, 28044, 28089, 28134, 28152, 28215, 28269, 28314, 28359, 28377,
   28440, 28494, 28539, 28584, 28602, 28665, 28719, 28764, 28809, 28827, 28890, 28944,
   28989, 29034, 29052, 29115, 29169, 29214, 29259, 29277, 29340, 29394, 29439, 29484,
   29502, 29565, 29619, 29664, 29709, 29727, 29790, 29844, 29889, 29934, 29952, 30015,
   30069, 30114, 30159, 30177, 30240, 30294, 30339, 30384, 30402, 30465, 30519, 30564,
   30609, 30627, 30690, 30744, 30789, 30834, 30852, 30915, 30969, 31014, 31059, 31077,
   31140, 31194, 31239, 31284, 31302, 31365, 31419, 31464, 31509, 31527, 31590, 31644,
   31689, 31734, 31752, 31815, 31869, 31914, 31959, 31977, 32040, 32094, 32139, 32184,
   32202, 32265, 32319, 32364, 32409, 32427, 32490, 32544, 32589, 32634, 32652, 32715,
   32769, 32814, 32859, 32877, 32940, 32994, 33039, 33084, 33102, 33165, 33219, 33264,
   33309, 33327, 33390, 33444, 33489, 33534, 33552, 33615, 33669, 33714, 33759, 33777,
   33840, 33894, 33939, 33984, 34002, 34065, 34119, 34164, 34209, 34227, 34290, 34344,
   34389, 34434, 34452, 34515, 34569, 34578, 34614, 34632, 34659, 34677, 34740, 34794,
   34803, 34839, 34857, 34884, 34902, 34965, 35019, 35028, 35064, 35082, 35109, 35127,
   35190, 35244, 35253, 35289, 35307, 35334, 35352, 35415, 35469, 35478, 35514, 35532,
   35559, 35577, 35640, 35694, 35703, 35739, 35757, 35784, 35802, 35865, 35919, 35928,
   35964, 35982, 36009, 36027, 36090, 36144, 36153, 36189, 36207, 36234, 36252, 36315,
   36369, 36378, 36414, 36432, 36459, 36477, 36540, 36594, 36603, 36639, 36657, 36684,
   36702, 36765, 36819, 36828, 36864, 36882, 36909, 36927, 36990, 37044, 37053, 37089,
   37107, 37134, 37152, 37215, 37269, 37278, 37314, 37332, 37359, 37377, 37440, 37494,
   37503, 37539, 37557, 37584, 37602, 37665, 37719, 37728, 37764, 37782, 37809, 37827,
   37890, 37944, 37953, 37989, 38007, 38034, 38052, 38115, 38169, 38178, 38214, 38232,
   38259, 38277, 38340, 38394, 38403, 38439, 38457, 38484, 38502, 38565, 38619, 38628,
   38664, 38682, 38709, 38727, 38790, 38844, 38853, 38889, 38907, 38934, 38952, 39015,
   39069, 39078, 39114, 39132, 39159, 39177, 39240, 39294, 39303, 39339, 39357, 39384,
   39402, 39465, 39519, 39528, 39564, 39582, 39609, 39627, 39690, 39744, 39753, 39789,
   39807, 39834, 39852, 39915, 39969, 39978, 40014, 40032, 40059, 40077, 40140, 40194,
   40203, 40239, 40257, 40284, 40302, 40365, 40419, 40428, 40464, 40482, 40509, 40527,
   40590, 40644, 40653, 40689, 40707, 40734, 40752, 40815, 40869, 40878, 40914, 40932,
   40959, 40977, 41040, 41094, 41103, 41139, 41157, 41184, 41202, 41265, 41319, 41328,
   41364, 41382, 41409, 41427, 41490, 41544, 41553, 41589, 41607, 41634, 41652, 41715,
   41769, 41778, 41814, 41832, 41859, 41877, 41940, 41994, 42003, 42039, 42057, 42084,
   42102, 42165, 42219, 42228, 42264, 42282, 42309, 42327, 42390, 42444, 42453, 42489,
   42507, 42534, 42552, 42615, 42669, 42678, 42714, 42732, 42759, 42777, 42840, 42894,
   42903, 42939, 42957, 42984, 43002, 43065, 43119, 43128, 43164, 43182, 43209, 43227,
   43290, 43344, 43353, 43389, 43407, 43434, 43452, 43515, 43569, 43578, 43614, 43632,
   43659, 43677, 43740, 43794, 43803, 43839, 43857, 43884, 43902, 43965, 44019, 44028,
   44064, 44082, 44109, 44127, 44190, 44244, 44253, 44289, 44307, 44334, 44352, 44415,
   44469, 44478, 44514, 44532, 44559, 44577, 44640, 44694, 44703, 44739, 44757, 44784,
   44802, 44865, 44919, 44928, 44964, 44982, 45009, 45027, 45090, 45144, 45153, 45189,
   45207, 45234, 45252, 45315, 45369, 45378, 45414, 45432, 45459, 45477, 45540, 45594,
   45603, 45639, 45657, 45684, 45702, 45765, 45819, 45828, 45864, 45882, 45909, 45927,
   45990, 46044, 46053, 46107, 46134, 46152, 46188, 46233, 46242, 46278, 46287, 46332,
   46359, 46377, 46413, 46458, 46467, 46503, 46512, 46557, 46584, 46602, 46638, 46683,
   46692, 46728, 46737, 46782, 46809, 46827, 46863, 46908, 46917, 46953, 46962, 47007,
   47034, 47052, 47088, 47133, 47142, 47178, 47259, 47313, 47358, 47403, 47484, 47538,
   47583, 47628, 47709, 47763, 47808, 47853, 47934, 47988, 48033, 48078, 48159, 48213,
   48258, 48303, 48384, 48438, 48483, 48528, 48609, 48663, 48708, 48753, 48834, 48888,
   48933, 48978, 49059, 49113, 49158, 49203, 49284, 49338, 49383, 49428, 49509, 49563,
   49608, 49653, 49734, 49788, 49833, 49878, 51231, 51267, 51306, 51342, 51381, 51417,
   51456, 51492, 51531, 51567, 51606, 51642, 51681, 51717, 51756, 51792, 51831, 51867,
   51906, 51942, 51981, 52017, 52056, 52092, 52131, 52167, 52206, 52242, 52281, 52317,
   52356, 52392, 52431, 52467, 52506, 52542, 52581, 52617, 52656, 52692, 52731, 52767,
   52806, 52842, 52881, 52917, 52956, 52992, 53031, 53067, 53106, 53142, 53181, 53217,
   53256, 53292, 53331, 53367, 53406, 53442, 53481, 53517, 53556, 53592, 53631, 53667,
   53706, 53742, 53781, 53817, 53856, 53892, 53931, 53967, 54006, 54042, 54081, 54117,
   54156, 54192, 54231, 54267, 54306, 54342, 54381, 54417, 54456, 54492, 54531, 54567,
   54606, 54642, 54681, 54717, 54756, 54792, 54831, 54867, 54906, 54942, 54981, 55017,
   55056, 55092, 55131, 55167, 55206, 55242, 55281, 55317, 55356, 55392, 55431, 55467,
   55506, 55542, 55581, 55617, 55656, 55692, 55731, 55767, 55806, 55842, 55881, 55917,
   55956, 55992, 56031, 56067, 56106, 56142, 56181, 56217, 56256, 56292, 56331, 56367,
   56406, 56442, 56481, 56517, 56556, 56592, 56631, 56667, 56706, 56742, 56781, 56817,
   56856, 56892, 56931, 56967, 57006, 57042, 57081, 57117, 57156, 57192, 57231, 57267,
   57306, 57342, 57381, 57417, 57456, 57492, 57531, 57567, 57606, 57642, 57681, 57717,
   57756, 57792, 57831, 57867, 57906, 57942, 57981, 58017, 58056, 58092, 58131, 58167,
   58206, 58242, 58281, 58317, 58356, 58392, 58431, 58467, 58506, 58542, 58581, 58617,
   58656, 58692, 58731, 58767, 58806, 58842, 58881, 58917, 58956, 58992, 59031, 59067,
   59106, 59142, 59181, 59217, 59256, 59292, 59331, 59367, 59406, 59442, 59481, 59517,
   59556, 59592, 59631, 59667, 59706, 59742, 59781, 59817, 59856, 59892, 59931, 59967,
   60006, 60042, 60081, 60117, 60156, 60192, 60231, 60267, 60306, 60342, 60381, 60417,
   60456, 60492, 60531, 60567, 60606, 60642, 60681, 60717, 60756, 60792, 60831, 60867,
   60906, 60942, 60981, 61017, 61056, 61092, 61131, 61167, 61206, 61242, 61281, 61317,
   61356, 61392, 61431, 61491, 61506, 61566, 61581, 61641, 61656, 61716, 61731, 61791,
   61806, 61866, 61881, 61941, 61956, 62016, 62031, 62091, 62106, 62166, 62181, 62241,
   62256, 62316, 62331, 62391, 62406, 62466, 62481, 62541, 62556, 62616, 62631, 62691,
   62706, 62766, 62781, 62841, 62856, 102459, 102462, 102534, 102537, 102609, 102612, 102684,
   102687, 102759, 102762, 102834, 102837, 102909, 102912, 102984, 102987, 103059, 103062, 103134,
   103137, 103209, 103212, 103284, 103287, 103359, 103362, 103434, 103437, 103509, 103512, 103584,
   103587, 103659, 103662, 103734, 103737, 103809, 103812, 103884, 103887, 103959, 103962, 104034,
   104037, 104109, 104112, 104184, 104187, 104259, 104262, 104334, 104337, 104409, 104412, 104484,
   104487, 104559, 104562, 104634, 104637, 104709, 104712, 104784, 104787, 104859, 104862, 104934,
   104937, 105009, 105012, 105084, 105087, 105159, 105162, 105234, 105237, 105309, 105312, 105384,
   105387, 105459, 105462, 105534, 105537, 105609, 105612, 105684, 105687, 105759, 105762, 105834,
   105837, 105909, 105912, 105984, 105987, 106059, 106062, 106134, 106137, 106209, 106212, 106284,
   106287, 106359, 106362, 106434, 106437, 106509, 106512, 106584, 106587, 106659, 106662, 106734,
   106737, 106809, 106812, 106884, 106887, 106959, 106962, 107034, 107037, 107109, 107112, 107184,
   107187, 107259, 107262, 107334, 107337, 107409, 107412, 107484, 107487, 107559, 107562, 107634,
   107637, 107709, 107712, 107784, 107787, 107859, 107862, 107934, 107937, 108009, 108012, 108084,
   108087, 108159, 108162, 108234, 108237, 108309, 108312, 108384, 108387, 108459, 108462, 108534,
   108537, 108609, 108612, 108684, 108687, 108759, 108762, 108834, 108837, 108909, 108912, 108984,
   108987, 109059, 109062, 109134, 109137, 109209, 109212, 109284, 109287, 109359, 109362, 109434,
   109437, 109509, 109512, 109584, 109587, 109659, 109662, 109734, 109737, 109809, 109812, 109884,
   109887, 109959, 109962, 110034, 110037, 110109, 110112, 110184, 110187, 110259, 110262, 110334,
   110337, 110409, 110412, 110484, 110487, 110559, 110562, 110634, 110637, 110709, 110712, 110784,
   110787, 110859, 110862, 110934, 110937, 111009, 111012, 111084, 111087, 111159, 111162, 111234,
   111237, 111309, 111312, 111384, 111387, 111459, 111462, 111534, 111537, 111609, 111612, 111684,
   111687, 111759, 111762, 111834, 111837, 111909, 111912, 111984, 111987, 112059, 112062, 112134,
   112137, 112209, 112212, 112284, 112287, 112359, 112362, 112434, 112437, 112509, 112512, 112584,
   112587, 112659, 112662, 112734, 112737, 112809, 112812, 112884, 112887, 112959, 112962, 113034,
   113037, 113109, 113112, 113184, 113187, 113259, 113262, 113334, 113337, 113409, 113412, 113484,
   113487, 113559, 113562, 113634, 113637, 113709, 113712, 113784, 113787, 113859, 113862, 113934,
   113937, 114009, 114012, 114084, 114087, 114159, 114162, 114234, 114237, 114309, 114312, 114384,
   114387, 114459, 114462, 114534, 114537, 114609, 114612, 114684, 114687, 114759, 114762, 114834,
   114837, 114909, 114912, 114984, 114987, 115059, 115062, 115134, 115137, 115209, 115212, 115284,
   115287, 115359, 115362, 115434, 115437, 115509, 115512, 115584, 115587, 115659, 115662, 115734,
   115737, 115809, 115812, 115884, 115887, 115959, 115962, 116034, 116037, 116109, 116112, 116184,
   116187, 116259, 116262, 116334, 116337, 116409, 116412, 116484, 116487, 116559, 116562, 116634,
   116637, 116709, 116712, 116784, 116787, 116859, 116862, 116934, 116937, 117009, 117012, 117084,
   117087, 117159, 117162, 117234, 117237, 117309, 117312, 117384, 117387, 117459, 117462, 117534,
   117537, 117609, 117612, 117684, 117687, 117759, 117762, 117834, 117837, 117909, 117912, 117984,
   117987, 118059, 118062, 118134, 118137, 118209, 118212, 118284, 118287, 118359, 118362, 118434,
   118437, 118509, 118512, 118584, 118587, 118659, 118662, 118734, 118737, 118809, 118812, 118884,
   118887, 118959, 118962, 119034, 119037, 119109, 119112, 119184, 119187, 119259, 119262, 119334,
   119337, 119409, 119412, 119484, 119487, 119559, 119562, 119634, 119637, 119709, 119712, 119784,
   119787, 119859, 119862, 119934, 119937, 120009, 120012, 120084, 120087, 120159, 120162, 120234,
   120237, 120309, 120312, 120384, 120387, 120459, 120462, 120534, 120537, 120609, 120612, 120684,
   120687, 120759, 120762, 120834, 120837, 120909, 120912, 120984, 120987, 121059, 121062, 121134,
   121137, 121209, 121212, 121284, 121287, 121359, 121362, 121434, 121437, 121509, 121512, 121584,
   121587, 121659, 121662, 121734, 121737, 121809, 121812, 121884, 121887, 121959, 121962, 122034,
   122037, 122109, 122112, 122184, 122187, 122259, 122262, 122334, 122337, 122409, 122412, 122484,
   122487, 122559, 122562, 122634, 122637, 122709, 122712, 122784, 122787, 122859, 122862, 122907,
   122937, 122982, 123012, 123057, 123087, 123132, 123162, 123207, 123237, 123282, 123312, 123357,
   123387, 123432, 123462, 123507, 123537, 123582, 123612, 123657, 123687, 123732, 123762, 123807,
   123837, 123882, 123912, 123957, 123987, 124032, 124062, 124107, 124137, 124182, 124212, 124257,
   124287, 124332, 124362, 124407, 124437, 124482, 124512, 124557, 124587, 124632, 124662, 124707,
   124737, 124782, 124812, 124857, 124887, 124932, 124962, 125007, 125037, 125082, 125112, 125157,
   125187, 125232, 125262, 125307, 125337, 125382, 125412, 125457, 125487, 125532, 125562, 125607,
   125637, 125682, 125712, 125757, 125787}

\* Math.floor((amountUsd / rate) * 1000) with amountUsd = amountCents / 100
\* and the rate given in cents per 1000 credits
floorCredits(amountCents, rateCents) ==
  ((amountCents * 1000) \div rateCents)
    - (IF amountCents \in FloatShortfall THEN 1 ELSE 0)

\* the tiers with the lower bound of the Standard tier excluded
calculateCredits_openTier(amountCents) ==
  IF amountCents >= 50000 /\ amountCents <= 200000
    THEN [ok |-> TRUE, credits |-> floorCredits(amountCents, 30), discountPercent |-> 220]
  ELSE IF amountCents >= 10000 /\ amountCents <= 49900
    THEN [ok |-> TRUE, credits |-> floorCredits(amountCents, 45), discountPercent |-> 78]
  ELSE IF amountCents > 3000 /\ amountCents <= 9900
    THEN [ok |-> TRUE, credits |-> floorCredits(amountCents, 65), discountPercent |-> 33]
  ELSE IF amountCents >= 500 /\ amountCents <= 3000
    THEN [ok |-> TRUE, credits |-> floorCredits(amountCents, 80), discountPercent |-> 0]
  ELSE [ok |-> FALSE, credits |-> 0, discountPercent |-> 0]

\* StripeService.calculateCredits, on the amount in cents (amountUsd =
\* amount / 100). The tiers compare whole dollars, so an amount strictly
\* between two tiers (29.01 .. 29.99 USD) falls in none and throws.
calculateCredits(amountCents) ==
  IF amountCents >= 50000 /\ amountCents <= 200000
    THEN [ok |-> TRUE, credits |-> floorCredits(amountCents, 30), discountPercent |-> 220]
  ELSE IF amountCents >= 10000 /\ amountCents <= 49900
    THEN [ok |-> TRUE, credits |-> floorCredits(amountCents, 45), discountPercent |-> 78]
  ELSE IF amountCents >= 3000 /\ amountCents <= 9900
    THEN [ok |-> TRUE, credits |-> floorCredits(amountCents, 65), discountPercent |-> 33]
  ELSE IF amountCents >= 500 /\ amountCents <= 2900
    THEN [ok |-> TRUE, credits |-> floorCredits(amountCents, 80), discountPercent |-> 0]
  ELSE [ok |-> FALSE, credits |-> 0, discountPercent |-> 0]

\* ------------------------------------------------------------------- state
VARIABLES
  workspaceCredits,      \* table workspace_credits, rows in insertion order
  creditPurchases,       \* table credit_purchases, rows in insertion order
  stripePaymentIntents,  \* table stripe_payment_intents, by payment_intent_id
  serpSearchResults,     \* table serp_search_results, rows by inserting request
  apiKeys,               \* table api_keys, the rows by id
  req,                   \* the search requests (handler position and locals)
  dlv,                   \* the webhook deliveries (handler position and locals)
  intent,                \* the payment-intent creations, by the id Stripe gives
  hook,                  \* the sign-ins: the session-create hook of auth.ts
  keyOp,                 \* the requests that write api_keys (routes/keys.ts)
  serpConfiguration,     \* table serp_configuration, the instance registry
  now,                   \* Date.now(), in milliseconds
  requestCounts,         \* the Map of rateLimit, by client id
  rateLimitMap,          \* the Map global.rateLimit of checkRateLimit
  windows,               \* per limiter and client: the window being counted
  decision,              \* what a rate limiter answered last
  pricing,               \* one use of the pricing table
  attempt,               \* the upstream attempts: fetch, its timer, the body read
  app,                   \* the application file the process was started from
  env                    \* process.env.SEARXNG_URL

\* the tables and handlers of the search and billing endpoints
gatewayVars ==
  <<workspaceCredits, creditPurchases, stripePaymentIntents, serpSearchResults,
    apiKeys, req, dlv, intent, hook, keyOp>>
\* the handlers of the sign-in and of the API-key routes
accountVars == <<hook, keyOp>>
proxyVars == <<serpConfiguration>>
limiterVars == <<now, requestCounts, rateLimitMap, windows, decision>>
pricingVars == <<pricing>>
attemptVars == <<attempt>>
appVars == <<app, env>>

\* what the steps of a handler after its entry leave alone
sideVars ==
  <<accountVars, proxyVars, limiterVars, pricingVars, attemptVars, appVars>>

\* what the step that receives a request leaves alone besides the tables:
\* everything but the Maps of the limiters
entryVars ==
  <<accountVars, proxyVars, now, windows, decision, pricingVars, attemptVars,
    appVars>>

vars ==
  <<gatewayVars, proxyVars, limiterVars, pricingVars, attemptVars, appVars>>

\* ---------------------------------------------------------- table helpers
\* db.select().from(workspaceCredits).where(organizationId = org).limit(1)
SelectCredits(org) ==
  LET rows == SelectSeq(workspaceCredits, LAMBDA row : row.organizationId = org)
  IN IF rows = <<>>
       THEN [found |-> FALSE, balance |-> 0, totalPurchased |-> 0, totalUsed |-> 0]
       ELSE [found |-> TRUE, balance |-> rows[1].balance,
             totalPurchased |-> rows[1].totalPurchased,
             totalUsed |-> rows[1].totalUsed]

\* the UPDATE with total_used counted down
deductCredit_refunding(org, credits) ==
  [i \in DOMAIN workspaceCredits |->
     IF workspaceCredits[i].organizationId = org
       THEN [workspaceCredits[i] EXCEPT !.balance = @ - credits,
                                        !.totalUsed = @ - credits]
       ELSE workspaceCredits[i]]

\* ApiController.deductCredit: one UPDATE statement,
\* SET balance = balance - credits, total_used = total_used + credits
\* WHERE organization_id = org. It changes every matching row and none when
\* the organization has no row; a failure is logged and swallowed.
deductCredit(org, credits) ==
  [i \in DOMAIN workspaceCredits |->
     IF workspaceCredits[i].organizationId = org
       THEN [workspaceCredits[i] EXCEPT !.balance = @ - credits,
                                        !.totalUsed = @ + credits]
       ELSE workspaceCredits[i]]

\* db.select().from(creditPurchases).where(paymentId = pid).limit(1): the
\* first matching row, or no row
existingPurchase(pid) ==
  LET rows == SelectSeq(creditPurchases, LAMBDA row : row.paymentId = pid)
  IN IF rows = <<>> THEN <<>> ELSE <<rows[1]>>

\* ----------------------------------------------------------- rate limiting
\* app.ts: app.use(rateLimit(100, 15 * 60 * 1000))
AppRateLimitMax == 100
AppRateLimitWindowMs == 15 * 60 * 1000

\* routes/api.ts checkRateLimit: if (clientData.count >= 6000)
CheckRateLimitCeiling == 6000
\* routes/api.ts checkRateLimit: resetTime: now + 15 * 60 * 1000
CheckRateLimitWindowMs == 15 * 60 * 1000

\* The repository holds the application file twice: app.ts mounts rateLimit
\* before the routers, src/app.ts has that line commented out.
Apps == {"app.ts", "src/app.ts"}

\* the limiters the application file mounts in front of every router
appUse(file) == IF file = "app.ts" THEN <<"rateLimit">> ELSE <<>>

\* req.ip; Undefined when the connection is gone
IpAddresses == {"203.0.113.7", Undefined}

\* const clientId = req.ip || 'unknown'
clientIdOf(ip) == IF ip = Undefined THEN "unknown" ELSE ip

ClientIds == {clientIdOf(ip) : ip \in IpAddresses}

\* Map.get(clientId) of a client the Map does not hold
NoClientData == [present |-> FALSE, count |-> 0, resetTime |-> 0]

\* now > clientData.resetTime
windowElapsed_never(t, resetTime) == FALSE

windowElapsed(t, resetTime) == t > resetTime

\* clientData.count >= maxRequests
limitReached_offByOne(count, maxRequests) == count > maxRequests

limitReached(count, maxRequests) == count >= maxRequests

\* The body of both middlewares (rateLimit in middleware/auth and
\* checkRateLimit in routes/api.ts are the same statements over their own
\* Map): the answer and the Map after the call.
limiterCall(map, clientId, t, maxRequests, windowMs) ==
  LET clientData == map[clientId]
  IN IF ~clientData.present \/ windowElapsed(t, clientData.resetTime)
       THEN [admitted |-> TRUE, status |-> 200,
             map |-> [map EXCEPT ![clientId] =
                        [present |-> TRUE, count |-> 1,
                         resetTime |-> t + windowMs]]]
     ELSE IF limitReached(clientData.count, maxRequests)
       THEN [admitted |-> FALSE, status |-> 429, map |-> map]
     ELSE [admitted |-> TRUE, status |-> 200,
           map |-> [map EXCEPT ![clientId].count = @ + 1]]

\* whether a limiter calls next(): on its two admitting branches only; the
\* 429 branch returns
limiterNext_always(answer) == TRUE

limiterNext(answer) == answer.admitted

\* The limiter of the application file, for one request: rateLimit over
\* requestCounts when the file mounts it; a file that does not mount it
\* passes the request on and leaves the Map alone.
appRateLimit(clientId) ==
  IF \E i \in DOMAIN appUse(app) : appUse(app)[i] = "rateLimit"
    THEN LET answer == limiterCall(requestCounts, clientId, now,
                                   AppRateLimitMax, AppRateLimitWindowMs)
         IN [mounted |-> TRUE, admitted |-> answer.admitted,
             status |-> answer.status, map |-> answer.map]
    ELSE [mounted |-> FALSE, admitted |-> TRUE, status |-> 200,
          map |-> requestCounts]

\* ------------------------------------------------------- instance registry
\* rows of serp_configuration, and the largest priority a row carries
MaxInstances == 2
MaxPriority == 2

\* apiController.ts DEFAULT_SEARXNG_INSTANCES
DEFAULT_SEARXNG_INSTANCES ==
  <<"https://searx.stream", "https://search.rhscz.eu", "https://searx.rhscz.eu",
    "https://searx.tiekoetter.com", "https://northboot.xyz",
    "https://search.inetol.net", "https://opnxng.com">>

\* searchController.ts: process.env.SEARXNG_URL || 'http://localhost:8080'
LocalSearxng == "http://localhost:8080"

\* instance_url of the registry rows, by row id
RegistryUrls ==
  <<"https://searx-a.example", "https://searx-b.example",
    "https://searx-c.example", "https://searx-d.example">>

Instances == 1..MaxInstances

\* the values of the columns the selection reads (health_status defaults to
\* 'unknown')
HealthStatuses == {"healthy", "unhealthy", "unknown"}
ConfigurationRows(i) ==
  [instanceUrl : {RegistryUrls[i]}, isActive : BOOLEAN,
   healthStatus : HealthStatuses, priority : 1..MaxPriority]

\* what SEARXNG_URL may be set to in the environment
SearxngUrlEnv == {Undefined, RegistryUrls[1]}

\* where(and(eq(isActive, true), eq(healthStatus, 'healthy')))
HealthyInstances ==
  {i \in Instances :
     serpConfiguration[i].isActive /\ serpConfiguration[i].healthStatus = "healthy"}

\* orderBy(desc(priority)): the rows that may come first (rows of equal
\* priority come in an order the database chooses)
FirstByPriority ==
  {i \in HealthyInstances :
     \A j \in HealthyInstances :
       serpConfiguration[j].priority <= serpConfiguration[i].priority}

\* ApiController.getHealthySearxngInstance: the URLs it may return; a failed
\* query is caught and answered with the first default instance
getHealthySearxngInstance(queryFails) ==
  IF queryFails THEN {DEFAULT_SEARXNG_INSTANCES[1]}
  ELSE IF HealthyInstances # {}
    THEN {serpConfiguration[i].instanceUrl : i \in FirstByPriority}
  ELSE {DEFAULT_SEARXNG_INSTANCES[1]}

\* ------------------------------------------------------- upstream answers
\* Response.json(): a body can be read once; a second read rejects
ResponseJson(bodyUsed, json) ==
  IF bodyUsed THEN "TypeError" ELSE IF json THEN "value" ELSE "SyntaxError"

\* fetchFromSearxng when the awaited fetch has settled, without the test of
\* response.ok
fetchFromSearxng_noStatusTest(arrived, ok) ==
  IF ~arrived THEN "throws" ELSE "reads body"

\* fetchFromSearxng when the awaited fetch has settled: a timeout or network
\* error rejects fetch; otherwise clearTimeout, and a non-2xx answer fails
\* the response.ok test; each of them leaves through the catch block, which
\* rethrows. A 2xx answer goes on to await response.json().
fetchFromSearxng(arrived, ok) ==
  IF ~arrived THEN "throws"
  ELSE IF ~ok THEN "throws"
  ELSE "reads body"

\* fetchFromSearxng when the awaited response.json() has settled: a
\* malformed payload fails in json() or in the mapping of the results
fetchFromSearxngBody(json) ==
  IF ResponseJson(FALSE, json) = "value" THEN "results" ELSE "throws"

\* SearchController.search when the awaited fetch has settled: a rejected
\* fetch goes to catch (searchError); otherwise the body is read for the
\* log line, before the status is looked at
searchFetch(arrived) ==
  IF ~arrived THEN "throws" ELSE "reads body"

\* SearchController.search when the first body read has settled: a malformed
\* body rejects; otherwise clearTimeout, a non-2xx answer throws, and a 2xx
\* answer goes on to read the body again
searchBody(ok, json) ==
  IF ResponseJson(FALSE, json) # "value" THEN "throws"
  ELSE IF ~ok THEN "throws"
  ELSE "reads body again"

\* SearchController.search when the second body read has settled
searchBodyAgain(json) ==
  IF ResponseJson(TRUE, json) # "value" THEN "throws" ELSE "searchData"

\* what the upstream has answered, as far as the handler has seen it
upstreamAnswer(ok, json) == IF ok /\ json THEN "ok" ELSE "failed"

\* ------------------------------------------------------------ search input
\* The query is modelled by its length (!searchQuery holds for length 0).
QueryLengths == {0, 10, MaxQueryLength + 1}

\* GET ?engines=a,b as the list of names; <<>> is an absent parameter
GetEngineParams ==
  {<<>>, <<"duckduckgo">>, <<"brave">>, <<"bing">>, <<"constructor">>,
   <<"toString">>}

\* ApiController.search: engines ? engines.split(',').filter(e => e in
\* SUPPORTED_ENGINES) : undefined
searchOptionsEngines(param) ==
  IF param = <<>>
    THEN [defined |-> FALSE, list |-> <<>>]
    ELSE [defined |-> TRUE,
          list |-> SelectSeq(param, LAMBDA e : hasProperty(e, SUPPORTED_ENGINES))]

\* logSearchResult: (options.engines && options.engines.length === 1) ?
\* options.engines[0] : 'multiple'
loggedEngine(engines) ==
  IF engines.defined /\ Len(engines.list) = 1 THEN engines.list[1] ELSE "multiple"

\* ---------------------------------------------------------------- requests
\* Besides the handler's locals a request records what it was sent with and
\* what the middleware did with it: clientId is the key the limiters counted
\* it under, passed the limiters that admitted it and limitedBy the limiter
\* that answered it 429; param is the engines parameter of a GET request;
\* attempts lists the instances a fetch of the request was sent to;
\* credential is "unresolved" when the request carried no credential or one
\* that is no active API key and no session (a session without an active
\* organization counts as resolved: it is turned away before any lookup) and
\* credOrg is the organization the credential belongs to. reportedNumbers
\* tells that the credit figures of a success response are numbers.
IdleReq ==
  [pc |-> "idle", handler |-> "none", clientId |-> "none",
   limitedBy |-> "none", passed |-> {}, org |-> Undefined, param |-> <<>>,
   engines |-> [defined |-> FALSE, list |-> <<>>], engine |-> Undefined,
   bearer |-> Undefined,
   apiKeyRecord |-> [id |-> 0, requestCount |-> 0],
   instance |-> Undefined, attempts |-> <<>>, responseOk |-> FALSE,
   upstream |-> "none", admitRow |-> FALSE, admitBalance |-> 0,
   outcome |-> "none", status |-> 0, creditsUsed |-> 0, balanceReported |-> 0,
   reportedNumbers |-> FALSE, charged |-> 0, credential |-> "none",
   credOrg |-> Undefined]

\* a response: the handler ends
Respond(r, outcome, status) ==
  req' = [req EXCEPT ![r].pc = "done", ![r].outcome = outcome, ![r].status = status]

\* the rows of serp_search_results a request has inserted
InsertSearchResult(r, org, searchEngine, status) ==
  serpSearchResults' =
    [serpSearchResults EXCEPT
       ![r] = Append(@, [organizationId |-> org, searchEngine |-> searchEngine,
                         status |-> status])]

\* stripe.paymentIntents.create gives the intents these ids
Payments == {"pi_1", "pi_2"}

\* the sign-ins and the requests to the API-key routes that are followed
MaxHooks == 1
MaxKeyOps == 1
Hooks == 1..MaxHooks
KeyOps == 1..MaxKeyOps

\* the handlers that have been entered so far
Started ==
  Cardinality({r \in Reqs : req[r].pc # "idle"}) +
  Cardinality({d \in Deliveries : dlv[d].pc # "idle"}) +
  Cardinality({p \in Payments : intent[p].pc # "idle"}) +
  Cardinality({h \in Hooks : hook[h].pc # "idle"}) +
  Cardinality({k \in KeyOps : keyOp[k].pc # "idle"})

\* the key hashes of table api_keys when the process starts, by row id
KeyHashes == <<"k-temp", "k-org1", "k-old">>

\* the rows of api_keys when the process starts: an active key of each
\* organization and a revoked one
InitApiKeys ==
  [id \in DOMAIN KeyHashes |->
     [keyHash |-> KeyHashes[id],
      organizationId |-> IF KeyHashes[id] = "k-temp" THEN TempOrg ELSE OtherOrg,
      isActive |-> KeyHashes[id] # "k-old", requestCount |-> 0]]

\* the organization whose active API key this is, Undefined when there is none
KeyOwner(key) ==
  LET ids == {id \in DOMAIN apiKeys :
                apiKeys[id].keyHash = key /\ apiKeys[id].isActive}
  IN IF ids = {} THEN Undefined
     ELSE apiKeys[CHOOSE id \in ids : TRUE].organizationId

\* the x-api-key header of a GET request; Undefined without it
ApiKeyHeaders == {Undefined, "k-temp", "k-bogus"}

\* routes/api.ts validateApiKey: 401 without the header (Undefined here);
\* any header value is given apiKey.organizationId = 'temp-org'
validateApiKey(apiKey) ==
  IF apiKey = Undefined THEN Undefined ELSE TempOrg

\* requests are taken in order of their index (they are interchangeable)
NextToReceive(r) ==
  /\ req[r].pc = "idle"
  /\ Started < MaxStarted
  /\ IF r = 1 THEN TRUE ELSE req[r - 1].pc # "idle"

\* what the limiters in front of a handler have done with a request: first
\* is the answer of the application file's limiter, second the answer of the
\* route's limiter when the route has one and the request got there
rejectingLimiter(first, reachedSecond, second) ==
  IF ~first.admitted THEN "rateLimit"
  ELSE IF reachedSecond /\ ~second.admitted THEN "checkRateLimit"
  ELSE "none"

passedLimiters(first, reachedSecond, second) ==
  (IF first.mounted /\ first.admitted THEN {"rateLimit"} ELSE {}) \cup
  (IF reachedSecond /\ second.admitted THEN {"checkRateLimit"} ELSE {})

\* ------------------------------------------------------- GET /api/search
\* The request passes rateLimit (when mounted), validateApiKey and
\* checkRateLimit and enters ApiController.search, which runs up to the await
\* in getHealthySearxngInstance. None of the three middlewares awaits. The
\* balance is not read: the ghost fields admitRow/admitBalance record what
\* the ledger held when the request was admitted.
GetReceive(r) ==
  /\ NextToReceive(r)
  /\ \E ip \in IpAddresses, apiKey \in ApiKeyHeaders, qlen \in QueryLengths,
        param \in GetEngineParams :
       LET clientId == clientIdOf(ip)
           first == appRateLimit(clientId)
           keyed == limiterNext(first) /\ validateApiKey(apiKey) # Undefined
           second == limiterCall(rateLimitMap, clientId, now,
                                 CheckRateLimitCeiling, CheckRateLimitWindowMs)
           entered ==
             [IdleReq EXCEPT !.handler = "GET", !.clientId = clientId,
                             !.limitedBy = rejectingLimiter(first, keyed, second),
                             !.passed = passedLimiters(first, keyed, second)]
           identified ==
             [entered EXCEPT !.org = validateApiKey(apiKey),
                             !.credential =
                                IF KeyOwner(apiKey) = Undefined
                                  THEN "unresolved" ELSE "resolved",
                             !.credOrg = KeyOwner(apiKey)]
       IN /\ apiKey # "k-temp" => (qlen = 10 /\ param = <<>>)
          /\ qlen # 10 => param = <<>>
          /\ qlen <= MaxQueryLength
          /\ requestCounts' = first.map
          /\ rateLimitMap' = IF keyed THEN second.map ELSE rateLimitMap
          /\ req' =
               [req EXCEPT ![r] =
                  IF ~limiterNext(first)
                    THEN [entered EXCEPT !.pc = "done", !.outcome = "rate_limited",
                                         !.status = first.status]
                  ELSE IF validateApiKey(apiKey) = Undefined
                    THEN [entered EXCEPT !.pc = "done",
                                         !.credential = "unresolved",
                                         !.outcome = "unauthenticated",
                                         !.status = 401]
                  ELSE IF ~limiterNext(second)
                    THEN [entered EXCEPT !.pc = "done", !.outcome = "rate_limited",
                                         !.status = second.status]
                  ELSE IF qlen = 0
                    THEN [identified EXCEPT !.pc = "done",
                                            !.outcome = "invalid_request",
                                            !.status = 400]
                  ELSE [identified EXCEPT
                          !.pc = "select",
                          !.param = param,
                          !.engines = searchOptionsEngines(param),
                          !.admitRow = SelectCredits(TempOrg).found,
                          !.admitBalance = SelectCredits(TempOrg).balance]]
  /\ UNCHANGED <<workspaceCredits, creditPurchases, stripePaymentIntents,
                 serpSearchResults, apiKeys, dlv, intent>>
  /\ UNCHANGED entryVars

\* const searxngUrl = instance || await this.getHealthySearxngInstance(): the
\* select of the registry has been answered (or has failed); the parameters
\* are built, the timer is set and fetch is awaited
GetSelectInstance(r) ==
  /\ req[r].handler = "GET" /\ req[r].pc = "select"
  /\ \E queryFails \in BOOLEAN :
       \E url \in getHealthySearxngInstance(queryFails) :
         req' = [req EXCEPT ![r].pc = "fetch", ![r].instance = url,
                            ![r].attempts = Append(@, url)]
  /\ UNCHANGED <<workspaceCredits, creditPurchases, stripePaymentIntents,
                 serpSearchResults, apiKeys, dlv, intent>>
  /\ UNCHANGED sideVars

\* The awaited fetch of fetchFromSearxng has settled. A throw is rethrown by
\* its catch block and caught by the handler, which awaits
\* logSearchResult(..., 'error').
GetFetch(r) ==
  /\ req[r].handler = "GET" /\ req[r].pc = "fetch"
  /\ \E arrived \in BOOLEAN, ok \in BOOLEAN :
       /\ ~arrived => ~ok
       /\ req' =
            IF fetchFromSearxng(arrived, ok) = "throws"
              THEN [req EXCEPT ![r].pc = "log_error", ![r].upstream = "failed"]
              ELSE [req EXCEPT ![r].pc = "body", ![r].responseOk = ok]
  /\ UNCHANGED <<workspaceCredits, creditPurchases, stripePaymentIntents,
                 serpSearchResults, apiKeys, dlv, intent>>
  /\ UNCHANGED sideVars

\* The awaited response.json() has settled: fetchFromSearxng returns the
\* results and the handler awaits logSearchResult(..., 'success'), or the
\* throw reaches the catch block of the handler.
GetBody(r) ==
  /\ req[r].handler = "GET" /\ req[r].pc = "body"
  /\ \E json \in BOOLEAN :
       req' =
         IF fetchFromSearxngBody(json) = "throws"
           THEN [req EXCEPT ![r].pc = "log_error", ![r].upstream = "failed"]
           ELSE [req EXCEPT ![r].pc = "log_success",
                            ![r].upstream =
                               upstreamAnswer(req[r].responseOk, json)]
  /\ UNCHANGED <<workspaceCredits, creditPurchases, stripePaymentIntents,
                 serpSearchResults, apiKeys, dlv, intent>>
  /\ UNCHANGED sideVars

\* logSearchResult(..., 'success'), then the credit cost is computed:
\* primaryEngine = engines ? engines[0] : 'google'; an empty engines list
\* makes primaryEngine.toLowerCase() throw, into the catch block.
GetLogSuccess(r) ==
  /\ req[r].handler = "GET" /\ req[r].pc = "log_success"
  /\ InsertSearchResult(r, req[r].org, loggedEngine(req[r].engines), "success")
  /\ req' = [req EXCEPT ![r].pc =
               IF req[r].engines.defined /\ req[r].engines.list = <<>>
                 THEN "log_error" ELSE "deduct"]
  /\ UNCHANGED <<workspaceCredits, creditPurchases, stripePaymentIntents,
                 apiKeys, dlv, intent>>
  /\ UNCHANGED sideVars

\* the engine whose cost is charged
primaryEngine(engines) ==
  IF engines.defined THEN engines.list[1] ELSE "google"

\* deductCredit(organizationId, creditsToDeduct), then the success response
\* with credits.used_for_request = creditsToDeduct and credits.balance =
\* creditBalance - creditsToDeduct, creditBalance being the number
\* checkRateLimit attached to the request. With a creditsToDeduct that is no
\* number the UPDATE fails, which deductCredit swallows, and the response
\* carries no number: used_for_request is dropped and balance is null.
GetDeduct(r) ==
  /\ req[r].handler = "GET" /\ req[r].pc = "deduct"
  /\ LET creditsToDeduct == creditCost(primaryEngine(req[r].engines))
     IN IF creditsToDeduct.number
          THEN /\ workspaceCredits' =
                    deductCredit(req[r].org, creditsToDeduct.value)
               /\ req' = [req EXCEPT
                            ![r].pc = "done", ![r].outcome = "success",
                            ![r].status = 200,
                            ![r].reportedNumbers = TRUE,
                            ![r].creditsUsed = creditsToDeduct.value,
                            ![r].balanceReported =
                               StubCreditBalance - creditsToDeduct.value,
                            ![r].charged =
                               IF SelectCredits(req[r].org).found
                                 THEN @ + creditsToDeduct.value ELSE @]
          ELSE /\ UNCHANGED workspaceCredits
               /\ req' = [req EXCEPT
                            ![r].pc = "done", ![r].outcome = "success",
                            ![r].status = 200,
                            ![r].reportedNumbers = FALSE]
  /\ UNCHANGED <<creditPurchases, stripePaymentIntents, serpSearchResults,
                 apiKeys, dlv, intent>>
  /\ UNCHANGED sideVars

\* catch block: logSearchResult(..., 'error'), then 500
GetLogError(r) ==
  /\ req[r].handler = "GET" /\ req[r].pc = "log_error"
  /\ InsertSearchResult(r, req[r].org, loggedEngine(req[r].engines), "error")
  /\ Respond(r, "upstream_failure", 500)
  /\ UNCHANGED <<workspaceCredits, creditPurchases, stripePaymentIntents,
                 apiKeys, dlv, intent>>
  /\ UNCHANGED sideVars

\* ------------------------------------------------------ POST /api/search
\* Authorization: Bearer <key>, as the hash of the key; Undefined without it
BearerKeys == {Undefined, "k-temp", "k-org1", "k-old", "k-new-1"}

\* the session's active organization; "no-session" and "no-org" are the two
\* ways requireAuth / requireOrganization stop a request
Sessions == Orgs \cup {"no-session", "no-org"}

\* request bodies: engine given as 'engine', as 'engines', or omitted
PostBodies ==
  {[engine |-> "google", engines |-> [defined |-> FALSE, list |-> <<>>]],
   [engine |-> Undefined, engines |-> [defined |-> TRUE, list |-> <<"google">>]],
   [engine |-> Undefined, engines |-> [defined |-> FALSE, list |-> <<>>]]}

\* const searchEngines = engines || (engine ? [engine] : ['google'])
searchEngines(body) ==
  IF body.engines.defined THEN body.engines.list
  ELSE IF body.engine # Undefined THEN <<body.engine>>
  ELSE <<"google">>

\* the rows the api_keys lookup of SearchController.search selects from:
\* by key hash, organization and is_active with a Bearer key, by
\* organization and is_active without
ApiKeysMatching(org, bearer) ==
  {id \in DOMAIN apiKeys :
     /\ bearer # Undefined => apiKeys[id].keyHash = bearer
     /\ apiKeys[id].organizationId = org
     /\ apiKeys[id].isActive}

\* the request passes rateLimit (when mounted) and enters requireAuth, which
\* awaits auth.api.getSession
PostReceive(r) ==
  /\ NextToReceive(r)
  /\ \E ip \in IpAddresses :
       LET clientId == clientIdOf(ip)
           first == appRateLimit(clientId)
           entered ==
             [IdleReq EXCEPT !.handler = "POST", !.clientId = clientId,
                             !.limitedBy = rejectingLimiter(first, FALSE, first),
                             !.passed = passedLimiters(first, FALSE, first)]
       IN /\ requestCounts' = first.map
          /\ req' =
               [req EXCEPT ![r] =
                  IF ~limiterNext(first)
                    THEN [entered EXCEPT !.pc = "done", !.outcome = "rate_limited",
                                         !.status = first.status]
                    ELSE [entered EXCEPT !.pc = "session"]]
  /\ UNCHANGED <<workspaceCredits, creditPurchases, stripePaymentIntents,
                 serpSearchResults, apiKeys, dlv, intent, rateLimitMap>>
  /\ UNCHANGED entryVars

\* getSession has answered: requireAuth (401 without a session),
\* requireOrganization (400 without an active organization), then
\* SearchController.search: the validation of the query, and the api_keys
\* lookup is awaited
PostSession(r) ==
  /\ req[r].handler = "POST" /\ req[r].pc = "session"
  /\ \E session \in Sessions, qlen \in QueryLengths, bearer \in BearerKeys,
        body \in PostBodies :
       req' =
            IF session = "no-session"
              THEN [req EXCEPT ![r].pc = "done", ![r].credential = "unresolved",
                               ![r].outcome = "unauthenticated",
                               ![r].status = 401]
            ELSE IF session = "no-org" \/ qlen = 0 \/ qlen > MaxQueryLength
              THEN [req EXCEPT ![r].pc = "done", ![r].credential = "resolved",
                               ![r].outcome = "invalid_request",
                               ![r].status = 400]
            ELSE [req EXCEPT ![r].pc = "api_key", ![r].org = session,
                             ![r].bearer = bearer,
                             ![r].engine = body.engine,
                             ![r].engines = body.engines]
  /\ UNCHANGED <<workspaceCredits, creditPurchases, stripePaymentIntents,
                 serpSearchResults, apiKeys, dlv, intent>>
  /\ UNCHANGED sideVars

\* the api_keys lookup has answered: 401 when a Bearer key matches no active
\* key of the organization, 400 when the organization has no active key;
\* otherwise the row is kept as apiKeyRecord and the credit check is awaited
PostApiKey(r) ==
  /\ req[r].handler = "POST" /\ req[r].pc = "api_key"
  /\ IF ApiKeysMatching(req[r].org, req[r].bearer) = {}
       THEN req' =
              IF req[r].bearer # Undefined
                THEN [req EXCEPT ![r].pc = "done", ![r].credential = "unresolved",
                                 ![r].outcome = "unauthenticated",
                                 ![r].status = 401]
                ELSE [req EXCEPT ![r].pc = "done", ![r].credential = "resolved",
                                 ![r].outcome = "invalid_request",
                                 ![r].status = 400]
       ELSE \E id \in ApiKeysMatching(req[r].org, req[r].bearer) :
              req' = [req EXCEPT
                        ![r].pc = "credits", ![r].credential = "resolved",
                        ![r].credOrg = req[r].org,
                        ![r].apiKeyRecord =
                           [id |-> id,
                            requestCount |-> apiKeys[id].requestCount]]
  /\ UNCHANGED <<workspaceCredits, creditPurchases, stripePaymentIntents,
                 serpSearchResults, apiKeys, dlv, intent>>
  /\ UNCHANGED sideVars

\* Check credit balance: the select of the row has answered; 402 when there
\* is none or its balance is <= 0; otherwise the timer is set and fetch is
\* awaited, of process.env.SEARXNG_URL || 'http://localhost:8080'
PostCheckCredits(r) ==
  /\ req[r].handler = "POST" /\ req[r].pc = "credits"
  /\ LET currentCredits == SelectCredits(req[r].org)
         searxngUrl == IF env # Undefined THEN env ELSE LocalSearxng
     IN IF ~currentCredits.found \/ currentCredits.balance <= 0
          THEN req' = [req EXCEPT ![r].pc = "done",
                                  ![r].admitRow = currentCredits.found,
                                  ![r].admitBalance = currentCredits.balance,
                                  ![r].outcome = "insufficient_credits",
                                  ![r].status = 402]
          ELSE req' = [req EXCEPT ![r].pc = "fetch",
                                  ![r].instance = searxngUrl,
                                  ![r].attempts = Append(@, searxngUrl),
                                  ![r].admitRow = TRUE,
                                  ![r].admitBalance = currentCredits.balance]
  /\ UNCHANGED <<workspaceCredits, creditPurchases, stripePaymentIntents,
                 serpSearchResults, apiKeys, dlv, intent>>
  /\ UNCHANGED sideVars

\* The awaited fetch has settled: a rejection goes to catch (searchError),
\* which awaits the insert of the error record; otherwise
\* searchResponse.json() is awaited for the log line.
PostFetch(r) ==
  /\ req[r].handler = "POST" /\ req[r].pc = "fetch"
  /\ \E arrived \in BOOLEAN, ok \in BOOLEAN :
       /\ ~arrived => ~ok
       /\ req' =
            IF searchFetch(arrived) = "throws"
              THEN [req EXCEPT ![r].pc = "log_error", ![r].upstream = "failed"]
              ELSE [req EXCEPT ![r].pc = "body", ![r].responseOk = ok]
  /\ UNCHANGED <<workspaceCredits, creditPurchases, stripePaymentIntents,
                 serpSearchResults, apiKeys, dlv, intent>>
  /\ UNCHANGED sideVars

\* The first body read has settled: clearTimeout, the status test, and the
\* body is read a second time.
PostBody(r) ==
  /\ req[r].handler = "POST" /\ req[r].pc = "body"
  /\ \E json \in BOOLEAN :
       req' = [req EXCEPT
                 ![r].upstream = upstreamAnswer(req[r].responseOk, json),
                 ![r].pc = IF searchBody(req[r].responseOk, json) = "throws"
                             THEN "log_error" ELSE "body_again"]
  /\ UNCHANGED <<workspaceCredits, creditPurchases, stripePaymentIntents,
                 serpSearchResults, apiKeys, dlv, intent>>
  /\ UNCHANGED sideVars

\* The second body read has settled. It rejects whatever the upstream sent,
\* and control passes to catch (searchError), so the statements after it
\* (lines 230-301: deduction, request count, success record, success
\* response) are never executed.
PostBodyAgain(r) ==
  /\ req[r].handler = "POST" /\ req[r].pc = "body_again"
  /\ searchBodyAgain(TRUE) = "throws"
  /\ req' = [req EXCEPT ![r].pc = "log_error"]
  /\ UNCHANGED <<workspaceCredits, creditPurchases, stripePaymentIntents,
                 serpSearchResults, apiKeys, dlv, intent>>
  /\ UNCHANGED sideVars

\* catch (searchError): the insert of the usage row with searchEngine:
\* engine (the body field 'engine'; the column is NOT NULL without a
\* default, so an undefined engine makes the insert throw into the outer
\* catch, which answers 500 'Internal server error'); then the update of the
\* key's request count is awaited.
PostLogError(r) ==
  /\ req[r].handler = "POST" /\ req[r].pc = "log_error"
  /\ IF req[r].engine = Undefined
       THEN /\ Respond(r, "internal_error", 500)
            /\ UNCHANGED serpSearchResults
       ELSE /\ InsertSearchResult(r, req[r].org, req[r].engine, "error")
            /\ req' = [req EXCEPT ![r].pc = "count"]
  /\ UNCHANGED <<workspaceCredits, creditPurchases, stripePaymentIntents,
                 apiKeys, dlv, intent>>
  /\ UNCHANGED sideVars

\* Update API key request count even for failed requests: the row with the
\* id of the key that was read gets requestCount set to the value read with
\* the key plus one (a row that has been deleted since is not there to
\* change); then 500 'Search failed'
PostCount(r) ==
  /\ req[r].handler = "POST" /\ req[r].pc = "count"
  /\ apiKeys' =
       [id \in DOMAIN apiKeys |->
          IF id = req[r].apiKeyRecord.id
            THEN [apiKeys[id] EXCEPT !.requestCount =
                    req[r].apiKeyRecord.requestCount + 1]
            ELSE apiKeys[id]]
  /\ Respond(r, "upstream_failure", 500)
  /\ UNCHANGED <<workspaceCredits, creditPurchases, stripePaymentIntents,
                 serpSearchResults, dlv, intent>>
  /\ UNCHANGED sideVars

\* ------------------------------- POST /api/billing/create-payment-intent
\* the organization of the purchases, and the amount in cents of each
\* (an event of Stripe reports both back)
PaymentOrg(pid) == TempOrg
PaymentAmount(pid) == IF pid = "pi_2" THEN 3000 ELSE 500

\* the row createPaymentIntent stores for a payment intent
StoredIntent(pid, amountCents, credits) ==
  [organizationId |-> PaymentOrg(pid), amount |-> amountCents,
   creditsRequested |-> credits, status |-> "requires_payment_method"]

\* the amountUsd of the request body, in cents: missing (0), below the
\* minimum, between two tiers, and the amount of the purchase
IntentAmounts(pid) == {0, 499, 2950, PaymentAmount(pid)}

IdleIntent ==
  [pc |-> "idle", amountCents |-> 0, credits |-> 0, outcome |-> "none",
   status |-> 0]

\* the session of a purchase request
IntentSessions == {"no-session", "no-org", TempOrg}

\* the request passes rateLimit (when mounted) and enters requireAuth, which
\* awaits auth.api.getSession
CreateIntentReceive(p) ==
  /\ intent[p].pc = "idle"
  /\ p \notin DOMAIN stripePaymentIntents
  /\ Started < MaxStarted
  /\ \E ip \in IpAddresses :
       LET first == appRateLimit(clientIdOf(ip))
       IN /\ requestCounts' = first.map
          /\ intent' =
               IF ~limiterNext(first)
                 THEN [intent EXCEPT ![p].pc = "done",
                                     ![p].outcome = "rate_limited",
                                     ![p].status = first.status]
                 ELSE [intent EXCEPT ![p].pc = "session"]
  /\ UNCHANGED <<workspaceCredits, creditPurchases, stripePaymentIntents,
                 serpSearchResults, apiKeys, req, dlv, rateLimitMap>>
  /\ UNCHANGED entryVars

\* getSession has answered: requireAuth, then
\* BillingController.createPaymentIntent: 400 without an organization, 400
\* for !amountUsd or amountUsd < 5; StripeService.createPaymentIntent calls
\* calculateCredits, whose throw is answered 500, takes amountCents =
\* Math.round(amountUsd * 100) and awaits stripe.paymentIntents.create
CreateIntentSession(p) ==
  /\ intent[p].pc = "session"
  /\ \E session \in IntentSessions, amountCents \in IntentAmounts(p) :
       LET answered(outcome, status) ==
             intent' = [intent EXCEPT ![p].pc = "done", ![p].outcome = outcome,
                                      ![p].status = status]
       IN IF session = "no-session" THEN answered("unauthenticated", 401)
          ELSE IF session = "no-org" THEN answered("invalid_request", 400)
          ELSE IF amountCents = 0 \/ amountCents < 500
            THEN answered("invalid_request", 400)
          ELSE IF ~calculateCredits(amountCents).ok THEN answered("failed", 500)
          ELSE intent' = [intent EXCEPT
                            ![p].pc = "create", ![p].amountCents = amountCents,
                            ![p].credits = calculateCredits(amountCents).credits]
  /\ UNCHANGED <<workspaceCredits, creditPurchases, stripePaymentIntents,
                 serpSearchResults, apiKeys, req, dlv>>
  /\ UNCHANGED sideVars

\* stripe.paymentIntents.create has settled: a rejection is caught and
\* rethrown as 'Failed to create payment intent' (500); otherwise the insert
\* into stripe_payment_intents is awaited
CreateIntentCreated(p) ==
  /\ intent[p].pc = "create"
  /\ \E created \in BOOLEAN :
       intent' = IF created
                   THEN [intent EXCEPT ![p].pc = "insert"]
                   ELSE [intent EXCEPT ![p].pc = "done", ![p].outcome = "failed",
                                       ![p].status = 500]
  /\ UNCHANGED <<workspaceCredits, creditPurchases, stripePaymentIntents,
                 serpSearchResults, apiKeys, req, dlv>>
  /\ UNCHANGED sideVars

\* Store payment intent in database; then the client secret is answered
CreateIntentInsert(p) ==
  /\ intent[p].pc = "insert"
  /\ stripePaymentIntents' =
       stripePaymentIntents @@
         (p :> StoredIntent(p, intent[p].amountCents, intent[p].credits))
  /\ intent' = [intent EXCEPT ![p].pc = "done", ![p].outcome = "created",
                              ![p].status = 200]
  /\ UNCHANGED <<workspaceCredits, creditPurchases, serpSearchResults, apiKeys,
                 req, dlv>>
  /\ UNCHANGED sideVars

\* --------------------------------------------- POST /api/billing/webhook
\* an event may also name a payment intent this database never stored
EventPayments == Payments \cup {"pi_unknown"}

Signatures == {"missing", "invalid", "valid"}
EventTypes ==
  {"payment_intent.succeeded", "payment_intent.payment_failed", "other"}

\* StripeService.constructEvent: stripe.webhooks.constructEvent returns the
\* event for a signature that verifies against the payload and throws
\* otherwise
constructEvent_unverified(signature) == "event"

constructEvent(signature) ==
  IF signature = "valid" THEN "event" ELSE "throws"

\* Besides the handler's locals a delivery records the event it was sent
\* with (sig, type, pid), the statements it has executed (writes) and
\* whether another delivery of the payment was being handled when it came.
IdleDlv ==
  [pc |-> "idle", pid |-> Undefined, sig |-> Undefined, type |-> Undefined,
   credits |-> 0,
   currentCredits |-> [found |-> FALSE, balance |-> 0, totalPurchased |-> 0],
   outcome |-> "none", status |-> 0, writes |-> 0, concurrent |-> FALSE]

\* another delivery of the same payment is being handled
InFlightFor(pid) ==
  \E e \in Deliveries : dlv[e].pid = pid /\ dlv[e].pc \notin {"idle", "done"}

NextToDeliver(d) ==
  /\ dlv[d].pc = "idle"
  /\ Started < MaxStarted
  /\ IF d = 1 THEN TRUE ELSE dlv[d - 1].pc # "idle"

\* The delivery passes rateLimit (when mounted) and enters
\* BillingController.handleWebhook: signature header, constructEvent, event
\* type, calculateCredits on the amount of the event; then
\* StripeService.handlePaymentSuccess awaits stripe.paymentIntents.retrieve.
handleWebhook(d, ip, signature, type, pid) ==
  LET first == appRateLimit(clientIdOf(ip))
      sent == [dlv[d] EXCEPT !.sig = signature, !.type = type, !.pid = pid,
                             !.outcome = "none", !.status = 0, !.credits = 0,
                             !.currentCredits = IdleDlv.currentCredits]
      answered(outcome, status) ==
        dlv' = [dlv EXCEPT ![d] = [sent EXCEPT !.pc = "done",
                                               !.outcome = outcome,
                                               !.status = status]]
  IN /\ requestCounts' = first.map
     /\ IF ~limiterNext(first) THEN answered("rate_limited", first.status)
        ELSE IF signature = "missing" THEN answered("rejected", 400)
        ELSE IF constructEvent(signature) = "throws"
          THEN answered("rejected", 400)
        ELSE IF type # "payment_intent.succeeded" THEN answered("ignored", 200)
        ELSE IF ~calculateCredits(PaymentAmount(pid)).ok
          THEN answered("failed", 400)
        ELSE dlv' = [dlv EXCEPT
                       ![d] = [sent EXCEPT
                                 !.pc = "retrieve",
                                 !.concurrent = InFlightFor(pid),
                                 !.credits =
                                    calculateCredits(PaymentAmount(pid)).credits]]

\* A delivery arrives. Stripe sends payment_intent.succeeded for an intent
\* whose client secret has been answered, that is, after the insert of
\* createPaymentIntent, or for an intent another system created. Of the
\* deliveries whose content is not looked at, one is followed.
Webhook(d) ==
  /\ NextToDeliver(d)
  /\ \E ip \in IpAddresses, signature \in Signatures, type \in EventTypes,
        pid \in EventPayments :
       /\ pid \in Payments => pid \in DOMAIN stripePaymentIntents
       /\ signature # "valid" =>
            (type = "payment_intent.succeeded" /\ pid = "pi_1")
       /\ type # "payment_intent.succeeded" => pid = "pi_1"
       /\ handleWebhook(d, ip, signature, type, pid)
  /\ UNCHANGED <<workspaceCredits, creditPurchases, stripePaymentIntents,
                 serpSearchResults, apiKeys, req, intent, rateLimitMap>>
  /\ UNCHANGED entryVars

\* Get payment intent from Stripe: the processor reports 'succeeded' for a
\* payment whose succeeded event it signed; the select of the stored intent
\* is awaited
RetrieveIntent(d) ==
  /\ dlv[d].pc = "retrieve"
  /\ dlv' = [dlv EXCEPT ![d].pc = "stored"]
  /\ UNCHANGED <<workspaceCredits, creditPurchases, stripePaymentIntents,
                 serpSearchResults, apiKeys, req, intent>>
  /\ UNCHANGED sideVars

\* Get our stored payment intent: without a row handlePaymentSuccess throws
\* and handleWebhook answers 400; otherwise the select of an existing
\* purchase is awaited
SelectStoredIntent(d) ==
  /\ dlv[d].pc = "stored"
  /\ dlv' = IF dlv[d].pid \in DOMAIN stripePaymentIntents
              THEN [dlv EXCEPT ![d].pc = "check"]
              ELSE [dlv EXCEPT ![d].pc = "done", ![d].outcome = "failed",
                               ![d].status = 400]
  /\ UNCHANGED <<workspaceCredits, creditPurchases, stripePaymentIntents,
                 serpSearchResults, apiKeys, req, intent>>
  /\ UNCHANGED sideVars

\* existingPurchase.length > 0
alreadyProcessed(pid) == Len(existingPurchase(pid)) > 0

\* Check if already processed: a credit_purchases row with this payment id
CheckExisting(d) ==
  /\ dlv[d].pc = "check"
  /\ IF alreadyProcessed(dlv[d].pid)
       THEN dlv' = [dlv EXCEPT ![d].pc = "done", ![d].outcome = "already_applied",
                               ![d].status = 200]
       ELSE dlv' = [dlv EXCEPT ![d].pc = "insert"]
  /\ UNCHANGED <<workspaceCredits, creditPurchases, stripePaymentIntents,
                 serpSearchResults, apiKeys, req, intent>>
  /\ UNCHANGED sideVars

\* Create credit purchase record (payment_id carries no unique constraint)
InsertPurchase(d) ==
  /\ dlv[d].pc = "insert"
  /\ creditPurchases' =
       Append(creditPurchases,
              [organizationId |-> PaymentOrg(dlv[d].pid),
               amount |-> stripePaymentIntents[dlv[d].pid].amount,
               credits |-> dlv[d].credits,
               paymentId |-> dlv[d].pid])
  /\ dlv' = [dlv EXCEPT ![d].pc = "read", ![d].writes = @ + 1]
  /\ UNCHANGED <<workspaceCredits, stripePaymentIntents, serpSearchResults,
                 apiKeys, req, intent>>
  /\ UNCHANGED sideVars

\* Update workspace credits, first statement: select the current row
ReadCredits(d) ==
  /\ dlv[d].pc = "read"
  /\ LET row == SelectCredits(PaymentOrg(dlv[d].pid))
     IN dlv' = [dlv EXCEPT ![d].pc = "write",
                           ![d].currentCredits =
                              [found |-> row.found, balance |-> row.balance,
                               totalPurchased |-> row.totalPurchased]]
  /\ UNCHANGED <<workspaceCredits, creditPurchases, stripePaymentIntents,
                 serpSearchResults, apiKeys, req, intent>>
  /\ UNCHANGED sideVars

\* the UPDATE of the top-up: balance and total_purchased are set to the
\* values read before plus the credits, in every row of the organization
topUpUpdate(org, currentCredits, credits) ==
  [i \in DOMAIN workspaceCredits |->
     IF workspaceCredits[i].organizationId = org
       THEN [workspaceCredits[i] EXCEPT
               !.balance = currentCredits.balance + credits,
               !.totalPurchased = currentCredits.totalPurchased + credits]
       ELSE workspaceCredits[i]]

\* the INSERT of the top-up, when no row was read
topUpInsert(org, credits) ==
  Append(workspaceCredits,
         [organizationId |-> org, balance |-> credits,
          totalPurchased |-> credits, totalUsed |-> 0])

\* Update workspace credits, second statement
WriteCredits(d) ==
  /\ dlv[d].pc = "write"
  /\ workspaceCredits' =
       IF dlv[d].currentCredits.found
         THEN topUpUpdate(PaymentOrg(dlv[d].pid), dlv[d].currentCredits,
                          dlv[d].credits)
         ELSE topUpInsert(PaymentOrg(dlv[d].pid), dlv[d].credits)
  /\ dlv' = [dlv EXCEPT ![d].pc = "status", ![d].writes = @ + 1]
  /\ UNCHANGED <<creditPurchases, stripePaymentIntents, serpSearchResults,
                 apiKeys, req, intent>>
  /\ UNCHANGED sideVars

\* Update payment intent status, then res.json({ received: true })
UpdateIntentStatus(d) ==
  /\ dlv[d].pc = "status"
  /\ stripePaymentIntents' =
       [stripePaymentIntents EXCEPT ![dlv[d].pid].status = "succeeded"]
  /\ dlv' = [dlv EXCEPT ![d].pc = "done", ![d].outcome = "applied",
                        ![d].status = 200, ![d].writes = @ + 1]
  /\ UNCHANGED <<workspaceCredits, creditPurchases, serpSearchResults, apiKeys,
                 req, intent>>
  /\ UNCHANGED sideVars

\* The statement of the top-up (the UPDATE or INSERT of workspace_credits)
\* throws: handlePaymentSuccess logs and rethrows, handleWebhook's catch
\* answers 400. The credit_purchases row inserted before stays: the
\* statements run in no transaction.
WriteCreditsFails(d) ==
  /\ dlv[d].pc = "write"
  /\ dlv' = [dlv EXCEPT ![d].pc = "done", ![d].outcome = "failed",
                        ![d].status = 400]
  /\ UNCHANGED <<workspaceCredits, creditPurchases, stripePaymentIntents,
                 serpSearchResults, apiKeys, req, intent>>
  /\ UNCHANGED sideVars

\* ------------------------------------------------- redelivery of webhook events
\* The payment processor sends a verified payment_intent.succeeded event
\* again after an answer that is not 2xx. The delivery passes the handler
\* from its start; writes goes on counting the statements executed for this
\* event.
Redeliver(d) ==
  /\ dlv[d].pc = "done"
  /\ dlv[d].pid \in Payments
  /\ dlv[d].type = "payment_intent.succeeded"
  /\ dlv[d].status \in {400, 429}
  /\ constructEvent(dlv[d].sig) = "event"
  /\ \E ip \in IpAddresses :
       handleWebhook(d, ip, dlv[d].sig, dlv[d].type, dlv[d].pid)
  /\ UNCHANGED <<workspaceCredits, creditPurchases, stripePaymentIntents,
                 serpSearchResults, apiKeys, req, intent, rateLimitMap>>
  /\ UNCHANGED entryVars

\* ------------------------------------------------ sign-in: /api/auth/*
\* auth.ts databaseHooks.session.create.after, which better-auth calls when
\* it has created a session. The tables member, users, organization and
\* session are not followed: what the hook reads from them is an input.
IdleHook ==
  [pc |-> "idle", org |-> Undefined, outcome |-> "none", status |-> 0]

\* the organization the user of the session is a member of (the first row of
\* the select on member); Undefined for a user without membership
Memberships == Orgs \cup {Undefined}

\* newOrg.id: crypto.randomUUID(), one per sign-in
NewOrgIds == <<"org-new-1", "org-new-2", "org-new-3">>

\* values({ organizationId, balance, totalPurchased, totalUsed: 0 }), with
\* 200 credits for an organization the user is a member of and 1000 for a
\* new organization
starterRow(org, credits) ==
  [organizationId |-> org, balance |-> credits, totalPurchased |-> credits,
   totalUsed |-> 0]

\* the hook returns (or its catch block has logged the error): better-auth
\* answers the sign-in
HookReturns(h, outcome) ==
  hook' = [hook EXCEPT ![h].pc = "done", ![h].outcome = outcome,
                       ![h].status = 200]

\* what a step of the hook that writes no followed table leaves alone
HookOnly ==
  /\ UNCHANGED <<workspaceCredits, creditPurchases, stripePaymentIntents,
                 serpSearchResults, apiKeys, req, dlv, intent, keyOp>>
  /\ UNCHANGED <<proxyVars, limiterVars, pricingVars, attemptVars, appVars>>

\* routes/auth.ts router.all('/api/auth/*'): the request passes rateLimit
\* (when mounted) and the handler awaits nodeHandler(req, res)
SignInReceive(h) ==
  /\ hook[h].pc = "idle"
  /\ Started < MaxStarted
  /\ IF h = 1 THEN TRUE ELSE hook[h - 1].pc # "idle"
  /\ \E ip \in IpAddresses :
       LET first == appRateLimit(clientIdOf(ip))
       IN /\ requestCounts' = first.map
          /\ hook' =
               IF ~limiterNext(first)
                 THEN [hook EXCEPT ![h].pc = "done",
                                   ![h].outcome = "rate_limited",
                                   ![h].status = first.status]
                 ELSE [hook EXCEPT ![h].pc = "auth"]
  /\ UNCHANGED <<workspaceCredits, creditPurchases, stripePaymentIntents,
                 serpSearchResults, apiKeys, req, dlv, intent, keyOp,
                 rateLimitMap>>
  /\ UNCHANGED <<proxyVars, now, windows, decision, pricingVars, attemptVars,
                 appVars>>

\* better-auth has handled the request: it answers without a session (401),
\* or it has created the session and calls the hook, which awaits the select
\* on member
SessionCreated(h) ==
  /\ hook[h].pc = "auth"
  /\ \E created \in BOOLEAN :
       hook' = IF created
                 THEN [hook EXCEPT ![h].pc = "member"]
                 ELSE [hook EXCEPT ![h].pc = "done", ![h].outcome = "rejected",
                                   ![h].status = 401]
  /\ HookOnly

\* the select on member has answered: with a membership the update of the
\* session's activeOrganizationId is awaited, without one the select on users
HookMember(h) ==
  /\ hook[h].pc = "member"
  /\ \E existingMembership \in Memberships :
       hook' = IF existingMembership # Undefined
                 THEN [hook EXCEPT ![h].pc = "session_update",
                                   ![h].org = existingMembership]
                 ELSE [hook EXCEPT ![h].pc = "user"]
  /\ HookOnly

\* the session has been updated; the select on workspace_credits is awaited
HookSessionUpdate(h) ==
  /\ hook[h].pc = "session_update"
  /\ hook' = [hook EXCEPT ![h].pc = "credits"]
  /\ HookOnly

\* existingCredits = rows[0] of the organization's rows: without a row the
\* insert of the starter row is awaited, with one the hook returns
HookCredits(h) ==
  /\ hook[h].pc = "credits"
  /\ IF SelectCredits(hook[h].org).found
       THEN HookReturns(h, "member")
       ELSE hook' = [hook EXCEPT ![h].pc = "insert"]
  /\ HookOnly

\* the insert of the starter row of a member's organization
HookInsert(h) ==
  /\ hook[h].pc = "insert"
  /\ workspaceCredits' =
       Append(workspaceCredits, starterRow(hook[h].org, 200))
  /\ HookReturns(h, "credited")
  /\ UNCHANGED <<creditPurchases, stripePaymentIntents, serpSearchResults,
                 apiKeys, req, dlv, intent, keyOp>>
  /\ UNCHANGED <<proxyVars, limiterVars, pricingVars, attemptVars, appVars>>

\* the select on users has answered: if (!user) return; otherwise the insert
\* of the organization is awaited
HookUser(h) ==
  /\ hook[h].pc = "user"
  /\ \E found \in BOOLEAN :
       IF found
         THEN hook' = [hook EXCEPT ![h].pc = "org_insert"]
         ELSE HookReturns(h, "no_user")
  /\ HookOnly

\* the organization has been inserted and returned as newOrg; the insert of
\* the owner's membership is awaited
HookOrgInsert(h) ==
  /\ hook[h].pc = "org_insert"
  /\ hook' = [hook EXCEPT ![h].pc = "member_insert", ![h].org = NewOrgIds[h]]
  /\ HookOnly

\* the membership has been inserted; the update of the session is awaited
HookMemberInsert(h) ==
  /\ hook[h].pc = "member_insert"
  /\ hook' = [hook EXCEPT ![h].pc = "session_update_new"]
  /\ HookOnly

\* the session has been updated; the insert of the starter row is awaited
HookSessionUpdateNew(h) ==
  /\ hook[h].pc = "session_update_new"
  /\ hook' = [hook EXCEPT ![h].pc = "insert_new"]
  /\ HookOnly

\* the insert of the starter row of the new organization
HookInsertNew(h) ==
  /\ hook[h].pc = "insert_new"
  /\ workspaceCredits' =
       Append(workspaceCredits, starterRow(hook[h].org, 1000))
  /\ HookReturns(h, "created")
  /\ UNCHANGED <<creditPurchases, stripePaymentIntents, serpSearchResults,
                 apiKeys, req, dlv, intent, keyOp>>
  /\ UNCHANGED <<proxyVars, limiterVars, pricingVars, attemptVars, appVars>>

\* --------------------------------------------------------- /api/keys
\* routes/keys.ts: POST / (createKey), PUT /:id (updateKey), DELETE /:id
\* (deleteKey) and POST /:id/regenerate (regenerateKey), each behind
\* requireAuth and requireOrganization.
KeyOpKinds == {"createKey", "updateKey", "deleteKey", "regenerateKey"}

IdleKeyOp ==
  [pc |-> "idle", kind |-> "none", org |-> Undefined, keyId |-> 0,
   isActive |-> Undefined, newId |-> 0, outcome |-> "none", status |-> 0]

\* req.params.id
KeyIdParams == {"1", "2", "abc"}

\* parseInt(req.params.id): NaN for a parameter that starts with no digit
parseInt(param) ==
  IF param = "1" THEN [isNaN |-> FALSE, value |-> 1]
  ELSE IF param = "2" THEN [isNaN |-> FALSE, value |-> 2]
  ELSE [isNaN |-> TRUE, value |-> 0]

\* the isActive field of the body of an update; Undefined without it
IsActiveFields == {Undefined, "true", "false"}

\* const maxKeys = 10
MaxKeysPerOrganization == 10

\* hashApiKey(generateApiKey()): a new hash with every call, here by the
\* handler that made it and the request
generatedKeyHash(kind, k) ==
  IF kind = "createKey"
    THEN <<"k-new-1", "k-new-2", "k-new-3">>[k]
    ELSE <<"k-regen-1", "k-regen-2", "k-regen-3">>[k]

\* the id the serial column gives the next row
nextApiKeyId ==
  Len(KeyHashes) + Cardinality({k \in KeyOps : keyOp[k].newId # 0}) + 1

\* a response of a handler of the API-key routes
KeyResponds(k, outcome, status) ==
  keyOp' = [keyOp EXCEPT ![k].pc = "done", ![k].outcome = outcome,
                         ![k].status = status]

\* what a step of these handlers that writes no followed table leaves alone
KeyOnly ==
  /\ UNCHANGED <<workspaceCredits, creditPurchases, stripePaymentIntents,
                 serpSearchResults, apiKeys, req, dlv, intent, hook>>
  /\ UNCHANGED <<proxyVars, limiterVars, pricingVars, attemptVars, appVars>>

\* the request passes rateLimit (when mounted) and enters requireAuth, which
\* awaits auth.api.getSession
KeyReceive(k) ==
  /\ keyOp[k].pc = "idle"
  /\ Started < MaxStarted
  /\ IF k = 1 THEN TRUE ELSE keyOp[k - 1].pc # "idle"
  /\ \E ip \in IpAddresses, kind \in KeyOpKinds :
       LET first == appRateLimit(clientIdOf(ip))
       IN /\ requestCounts' = first.map
          /\ keyOp' =
               IF ~limiterNext(first)
                 THEN [keyOp EXCEPT ![k].pc = "done", ![k].kind = kind,
                                    ![k].outcome = "rate_limited",
                                    ![k].status = first.status]
                 ELSE [keyOp EXCEPT ![k].pc = "session", ![k].kind = kind]
  /\ UNCHANGED <<workspaceCredits, creditPurchases, stripePaymentIntents,
                 serpSearchResults, apiKeys, req, dlv, intent, hook,
                 rateLimitMap>>
  /\ UNCHANGED <<proxyVars, now, windows, decision, pricingVars, attemptVars,
                 appVars>>

\* getSession has answered: requireAuth (401 without a session),
\* requireOrganization (400 without an active organization), then the
\* controller up to its first await: createKey answers 400 without a name
\* and awaits the select on workspace_credits; the other three answer 400
\* for isNaN(keyId) and await the select of the key by id and organization
KeySession(k) ==
  /\ keyOp[k].pc = "session"
  /\ \E session \in Orgs \cup {"no-session", "no-org"}, named \in BOOLEAN,
        param \in KeyIdParams, isActive \in IsActiveFields :
       IF session = "no-session"
         THEN KeyResponds(k, "unauthenticated", 401)
       ELSE IF session = "no-org"
         THEN KeyResponds(k, "invalid_request", 400)
       ELSE IF keyOp[k].kind = "createKey"
         THEN IF ~named
                THEN KeyResponds(k, "invalid_request", 400)
                ELSE keyOp' = [keyOp EXCEPT ![k].pc = "credits",
                                            ![k].org = session]
       ELSE IF parseInt(param).isNaN
         THEN KeyResponds(k, "invalid_request", 400)
       ELSE keyOp' = [keyOp EXCEPT
                        ![k].pc = "lookup", ![k].org = session,
                        ![k].keyId = parseInt(param).value,
                        ![k].isActive =
                           IF keyOp[k].kind = "updateKey"
                             THEN isActive ELSE Undefined]
  /\ KeyOnly

\* createKey: the select on workspace_credits has answered: 402 without a
\* row; otherwise the count of the organization's keys is awaited
KeyCredits(k) ==
  /\ keyOp[k].pc = "credits"
  /\ IF SelectCredits(keyOp[k].org).found
       THEN keyOp' = [keyOp EXCEPT ![k].pc = "count"]
       ELSE KeyResponds(k, "not_initialized", 402)
  /\ KeyOnly

\* createKey: the count has answered: 400 at maxKeys; otherwise the key is
\* generated and the insert is awaited
KeyCount(k) ==
  /\ keyOp[k].pc = "count"
  /\ LET existingKeys ==
           Cardinality({id \in DOMAIN apiKeys :
                          apiKeys[id].organizationId = keyOp[k].org})
     IN IF existingKeys >= MaxKeysPerOrganization
          THEN KeyResponds(k, "invalid_request", 400)
          ELSE keyOp' = [keyOp EXCEPT ![k].pc = "insert"]
  /\ KeyOnly

\* createKey: the row is inserted, active and with requestCount 0; 201
KeyInsert(k) ==
  /\ keyOp[k].pc = "insert"
  /\ apiKeys' =
       [id \in DOMAIN apiKeys \cup {nextApiKeyId} |->
          IF id = nextApiKeyId
            THEN [keyHash |-> generatedKeyHash("createKey", k),
                  organizationId |-> keyOp[k].org, isActive |-> TRUE,
                  requestCount |-> 0]
            ELSE apiKeys[id]]
  /\ keyOp' = [keyOp EXCEPT ![k].pc = "done", ![k].newId = nextApiKeyId,
                            ![k].outcome = "created", ![k].status = 201]
  /\ UNCHANGED <<workspaceCredits, creditPurchases, stripePaymentIntents,
                 serpSearchResults, req, dlv, intent, hook>>
  /\ UNCHANGED <<proxyVars, limiterVars, pricingVars, attemptVars, appVars>>

\* updateKey, deleteKey, regenerateKey: the select of the key by id and
\* organization has answered: 404 without a row; otherwise the statement
\* that writes the row is awaited
KeyLookup(k) ==
  /\ keyOp[k].pc = "lookup"
  /\ IF /\ keyOp[k].keyId \in DOMAIN apiKeys
        /\ apiKeys[keyOp[k].keyId].organizationId = keyOp[k].org
       THEN keyOp' = [keyOp EXCEPT ![k].pc = "write"]
       ELSE KeyResponds(k, "not_found", 404)
  /\ KeyOnly

\* the rows of api_keys after the statement of the handler, each with
\* where(eq(apiKeys.id, keyId)): updateKey sets isActive when the body
\* carries it, deleteKey deletes the row, regenerateKey sets a new key hash
\* and requestCount 0
keyWrite(kind, keyId, isActive, newKeyHash) ==
  IF kind = "deleteKey"
    THEN [id \in DOMAIN apiKeys \ {keyId} |-> apiKeys[id]]
  ELSE [id \in DOMAIN apiKeys |->
          IF id # keyId THEN apiKeys[id]
          ELSE IF kind = "regenerateKey"
            THEN [apiKeys[id] EXCEPT !.keyHash = newKeyHash,
                                     !.requestCount = 0]
          ELSE IF isActive # Undefined
            THEN [apiKeys[id] EXCEPT !.isActive = (isActive = "true")]
          ELSE apiKeys[id]]

\* the statement has been executed; 200
KeyWrite(k) ==
  /\ keyOp[k].pc = "write"
  /\ apiKeys' = keyWrite(keyOp[k].kind, keyOp[k].keyId, keyOp[k].isActive,
                         generatedKeyHash(keyOp[k].kind, k))
  /\ KeyResponds(k, "written", 200)
  /\ UNCHANGED <<workspaceCredits, creditPurchases, stripePaymentIntents,
                 serpSearchResults, req, dlv, intent, hook>>
  /\ UNCHANGED <<proxyVars, limiterVars, pricingVars, attemptVars, appVars>>

\* ----------------------------------------------------------- rate limiters
\* rateLimit(maxRequests, windowMs): what the middleware is built with
MaxRequests == 2
WindowMs == 1

\* requests of one window of checkRateLimit that are followed from its start
\* and up to its ceiling
MaxBurst == 1

\* the instants at which requests arrive: the milliseconds of a window of
\* rateLimit and the one after it, from the process start and from the end
\* of a window of checkRateLimit
Instants ==
  (0..(WindowMs + 1)) \cup
  {CheckRateLimitWindowMs + ms : ms \in 0..(WindowMs + 1)}

\* The window an observer counts for a client: it opens with the first
\* admitted request and spans the times the middleware compares as not
\* elapsed (start .. start + windowMs); an admitted request later than that
\* opens the next one.
NoWindow == [open |-> FALSE, start |-> 0, admitted |-> 0]

observe(window, t, windowMs, admitted) ==
  IF ~admitted THEN window
  ELSE IF ~window.open \/ t > window.start + windowMs
    THEN [open |-> TRUE, start |-> t, admitted |-> 1]
  ELSE [window EXCEPT !.admitted = @ + 1]

NoDecision ==
  [limiter |-> "none", clientId |-> "none", admitted |-> FALSE, status |-> 0,
   afterElapsed |-> FALSE, afterExhausted |-> FALSE]

\* what a call found: a window of this client that had elapsed, and whether
\* that window had admitted its ceiling
decided(limiter, clientId, answer, before, maxRequests) ==
  [limiter |-> limiter, clientId |-> clientId, admitted |-> answer.admitted,
   status |-> answer.status,
   afterElapsed |-> before.present /\ now > before.resetTime,
   afterExhausted |->
     before.present /\ now > before.resetTime /\ before.count >= maxRequests]

\* app.use(rateLimit(maxRequests, windowMs)): one request passes the middleware
rateLimit(clientId) ==
  LET answer == limiterCall(requestCounts, clientId, now, MaxRequests, WindowMs)
  IN /\ requestCounts' = answer.map
     /\ windows' = [windows EXCEPT !["rateLimit"][clientId] =
                      observe(@, now, WindowMs, answer.admitted)]
     /\ decision' = decided("rateLimit", clientId, answer,
                            requestCounts[clientId], MaxRequests)
     /\ UNCHANGED <<now, rateLimitMap, gatewayVars, proxyVars, pricingVars,
                    attemptVars, appVars>>

\* router.get('/search', validateApiKey, checkRateLimit, ...): one request
\* passes checkRateLimit (a window is followed through the first MaxBurst
\* and the last MaxBurst requests it admits)
checkRateLimit(clientId) ==
  LET answer == limiterCall(rateLimitMap, clientId, now, CheckRateLimitCeiling,
                            CheckRateLimitWindowMs)
  IN /\ \/ ~rateLimitMap[clientId].present
        \/ now > rateLimitMap[clientId].resetTime
        \/ rateLimitMap[clientId].count < MaxBurst
        \/ rateLimitMap[clientId].count >= CheckRateLimitCeiling - MaxBurst
     /\ rateLimitMap' = answer.map
     /\ windows' = [windows EXCEPT !["checkRateLimit"][clientId] =
                      observe(@, now, CheckRateLimitWindowMs, answer.admitted)]
     /\ decision' = decided("checkRateLimit", clientId, answer,
                            rateLimitMap[clientId], CheckRateLimitCeiling)
     /\ UNCHANGED <<now, requestCounts, gatewayVars, proxyVars, pricingVars,
                    attemptVars, appVars>>

\* time passes between two requests
Tick ==
  /\ \E t \in Instants :
       /\ t > now
       /\ now' = t
  /\ UNCHANGED <<requestCounts, rateLimitMap, windows, decision,
                 gatewayVars, proxyVars, pricingVars, attemptVars, appVars>>

\* ------------------------------------------------------------------ pricing
\* the largest whole-dollar amount tried
MaxAmountUsd == 2001

\* amounts in cents: the whole-dollar amounts, 4.99 and 2000.01 USD, one
\* amount strictly between each two neighbouring tiers (29.50, 99.50 and
\* 499.50 USD), and in each tier the first amount on which the floating
\* point quotient falls short of the exact one
BetweenTiers == {2950, 9950, 49950}
ShortfallAmounts == {502, 3029, 10008, 51231}
Amounts ==
  {100 * usd : usd \in 0..MaxAmountUsd} \cup {499, 200001} \cup BetweenTiers
    \cup ShortfallAmounts

\* stripe.ts CREDIT_PLANS, answered by GET /api/billing/plans
\* (StripeService.getPricingPlans)
StripePlans ==
  {[id |-> "starter", credits |-> 6250, price |-> 500, discountPercent |-> 0],
   [id |-> "standard", credits |-> 46154, price |-> 3000, discountPercent |-> 33],
   [id |-> "scale", credits |-> 222222, price |-> 10000, discountPercent |-> 78],
   [id |-> "ultimate", credits |-> 1666667, price |-> 50000,
    discountPercent |-> 220]}

\* apiController.ts CREDIT_PLANS, answered by GET /api/plans
\* (ApiController.getPlans)
ApiPlans ==
  {[id |-> "starter", credits |-> 1000, price |-> 500, bonus |-> 0],
   [id |-> "professional", credits |-> 5000, price |-> 2000, bonus |-> 500],
   [id |-> "enterprise", credits |-> 25000, price |-> 8000, bonus |-> 5000],
   [id |-> "ultimate", credits |-> 100000, price |-> 25000, bonus |-> 25000]}

NoPricing ==
  [op |-> "none", amountCents |-> 0, endpoint |-> "none", plan |-> "none",
   quotedCredits |-> 0, ok |-> FALSE, credits |-> 0, discountPercent |-> 0]

\* BillingController.getPricingPlans: a client reads a plan and pays its price
getPricingPlans ==
  /\ pricing.op = "input"
  /\ \E plan \in StripePlans :
       pricing' = [pricing EXCEPT !.op = "quoted", !.endpoint = "billing",
                                  !.plan = plan.id, !.amountCents = plan.price,
                                  !.quotedCredits = plan.credits]
  /\ UNCHANGED <<gatewayVars, proxyVars, limiterVars, attemptVars, appVars>>

\* ApiController.getPlans: a client reads a plan and pays its price
getPlans ==
  /\ pricing.op = "input"
  /\ \E plan \in ApiPlans :
       pricing' = [pricing EXCEPT !.op = "quoted", !.endpoint = "api",
                                  !.plan = plan.id, !.amountCents = plan.price,
                                  !.quotedCredits = plan.credits + plan.bonus]
  /\ UNCHANGED <<gatewayVars, proxyVars, limiterVars, attemptVars, appVars>>

\* StripeService.calculateCredits(amount / 100), as createPaymentIntent and
\* handleWebhook call it; a throw is ok = FALSE
CalculateCredits ==
  /\ pricing.op \in {"input", "quoted"}
  /\ LET result == calculateCredits(pricing.amountCents)
     IN pricing' = [pricing EXCEPT !.op = "calculated", !.ok = result.ok,
                                   !.credits = result.credits,
                                   !.discountPercent = result.discountPercent]
  /\ UNCHANGED <<gatewayVars, proxyVars, limiterVars, attemptVars, appVars>>

\* ------------------------------------------ the timeout of an upstream attempt
\* the attempts that are followed
MaxAttempts == 2
Attempts == 1..MaxAttempts

\* What the upstream instance does with a request: it answers with a complete
\* body; it never answers; or it sends the status line and the headers and
\* then never completes the body.
UpstreamBehaviours == {"answers", "silent", "stalls"}

IdleAttempt ==
  [pc |-> "idle", handler |-> "none", upstream |-> "none", timer |-> "unset",
   outcome |-> "none"]

\* const timeoutId = setTimeout(() => controller.abort(), ...), then
\* fetch(url, { signal: controller.signal }) is awaited
AttemptStart(a) ==
  /\ attempt[a].pc = "idle"
  /\ IF a = 1 THEN TRUE ELSE attempt[a - 1].pc # "idle"
  /\ \E handler \in {"GET", "POST"}, upstream \in UpstreamBehaviours :
       attempt' = [attempt EXCEPT ![a] =
                     [pc |-> "fetch", handler |-> handler, upstream |-> upstream,
                      timer |-> "armed", outcome |-> "none"]]
  /\ UNCHANGED <<gatewayVars, proxyVars, limiterVars, pricingVars, appVars>>

\* The timer when fetch has resolved and the body is about to be read.
\* ApiController.fetchFromSearxng calls clearTimeout(timeoutId) before
\* response.json(); SearchController.search awaits searchResponse.json()
\* first and calls clearTimeout(timeoutId) after it.
timerAfterFetch(handler) ==
  IF handler = "GET" THEN "cleared" ELSE "armed"

\* fetch resolves: the status line and the headers have arrived
FetchResolves(a) ==
  /\ attempt[a].pc = "fetch"
  /\ attempt[a].upstream \in {"answers", "stalls"}
  /\ attempt' = [attempt EXCEPT ![a].pc = "body",
                                ![a].timer = timerAfterFetch(attempt[a].handler)]
  /\ UNCHANGED <<gatewayVars, proxyVars, limiterVars, pricingVars, appVars>>

\* The awaited json() resolves: the body has arrived completely.
\* fetchFromSearxng returns the results. SearchController.search clears the
\* timer, tests the status and awaits searchResponse.json() a second time.
BodyRead(a) ==
  /\ attempt[a].pc = "body"
  /\ attempt[a].upstream = "answers"
  /\ attempt' =
       IF attempt[a].handler = "GET"
         THEN [attempt EXCEPT
                 ![a].pc = "done", ![a].timer = "cleared",
                 ![a].outcome = IF ResponseJson(FALSE, TRUE) = "value"
                                  THEN "results" ELSE "failure"]
         ELSE [attempt EXCEPT ![a].pc = "body_again", ![a].timer = "cleared"]
  /\ UNCHANGED <<gatewayVars, proxyVars, limiterVars, pricingVars, appVars>>

\* The second read of the body in SearchController.search has settled: the
\* body was used by the first read, the read rejects and the catch block
\* ends the attempt as a failure.
BodyReadAgain(a) ==
  /\ attempt[a].pc = "body_again"
  /\ attempt' = [attempt EXCEPT
                   ![a].pc = "done",
                   ![a].outcome = IF ResponseJson(TRUE, TRUE) = "value"
                                    THEN "results" ELSE "failure"]
  /\ UNCHANGED <<gatewayVars, proxyVars, limiterVars, pricingVars, appVars>>

\* The timer fires while it is armed: controller.abort() rejects the pending
\* fetch or body read, and the catch block ends the attempt as a failure.
TimeoutFires(a) ==
  /\ attempt[a].pc \in {"fetch", "body"}
  /\ attempt[a].timer = "armed"
  /\ attempt' = [attempt EXCEPT ![a].pc = "done", ![a].timer = "fired",
                                ![a].outcome = "failure"]
  /\ UNCHANGED <<gatewayVars, proxyVars, limiterVars, pricingVars, appVars>>

\* ------------------------------------------------------------ specification
\* the row a 5 USD purchase created and searches have drawn down to balance b
InitRow(org, b) ==
  [organizationId |-> org, balance |-> b,
   totalPurchased |-> calculateCredits(500).credits,
   totalUsed |-> calculateCredits(500).credits - b]

\* the stripe_payment_intents rows of the purchases made before
StoredIntents(pids) ==
  [pid \in pids |->
     StoredIntent(pid, PaymentAmount(pid),
                  calculateCredits(PaymentAmount(pid)).credits)]

\* The organization of the GET handler and of the payments starts without a
\* workspace_credits row or with a small balance; the other organization
\* starts with a small positive balance. The first payment intent has been
\* created; the second has been created too or is still to be created.
InitGateway ==
  /\ workspaceCredits \in
       {<<InitRow(OtherOrg, MaxInitBalance)>>} \cup
       {<<InitRow(TempOrg, b), InitRow(OtherOrg, MaxInitBalance)>> :
          b \in 0..MaxInitBalance}
  /\ creditPurchases = <<>>
  /\ stripePaymentIntents \in {StoredIntents({"pi_1"}), StoredIntents(Payments)}
  /\ serpSearchResults = [r \in Reqs |-> <<>>]
  /\ apiKeys = InitApiKeys
  /\ req = [r \in Reqs |-> IdleReq]
  /\ dlv = [d \in Deliveries |-> IdleDlv]
  /\ intent = [p \in Payments |-> IdleIntent]
  /\ hook = [h \in Hooks |-> IdleHook]
  /\ keyOp = [k \in KeyOps |-> IdleKeyOp]

\* the endpoints at rest, for the specifications that follow one component
GatewayAtRest ==
  /\ workspaceCredits = <<InitRow(OtherOrg, MaxInitBalance)>>
  /\ creditPurchases = <<>>
  /\ stripePaymentIntents = StoredIntents(Payments)
  /\ serpSearchResults = [r \in Reqs |-> <<>>]
  /\ apiKeys = InitApiKeys
  /\ req = [r \in Reqs |-> IdleReq]
  /\ dlv = [d \in Deliveries |-> IdleDlv]
  /\ intent = [p \in Payments |-> IdleIntent]
  /\ hook = [h \in Hooks |-> IdleHook]
  /\ keyOp = [k \in KeyOps |-> IdleKeyOp]

ProxyAtRest ==
  /\ serpConfiguration =
       [i \in Instances |->
          [instanceUrl |-> RegistryUrls[i], isActive |-> TRUE,
           healthStatus |-> "unknown", priority |-> 1]]

NoWindows ==
  [limiter \in {"rateLimit", "checkRateLimit"} |-> [c \in ClientIds |-> NoWindow]]

NoClients == [c \in ClientIds |-> NoClientData]

LimiterAtRest ==
  /\ now = 0
  /\ requestCounts = NoClients
  /\ rateLimitMap = NoClients
  /\ windows = NoWindows
  /\ decision = NoDecision

\* the client whose window is followed close to its ceiling
BusyClient == "203.0.113.7"

\* a Map in which BusyClient has a window open, from time 0, that has
\* counted this many requests
BusyMap(count, windowMs) ==
  [NoClients EXCEPT ![BusyClient] =
     [present |-> TRUE, count |-> count, resetTime |-> windowMs]]

PricingAtRest == pricing = NoPricing

AttemptAtRest == attempt = [a \in Attempts |-> IdleAttempt]

\* The process runs app.ts. One client is one request short of the ceiling
\* of its window of rateLimit; the Map of checkRateLimit is empty.
InitLimiterOfApp ==
  /\ app = "app.ts" /\ env = Undefined
  /\ now = 0
  /\ requestCounts = BusyMap(AppRateLimitMax - 1, AppRateLimitWindowMs)
  /\ rateLimitMap = NoClients
  /\ windows = NoWindows
  /\ decision = NoDecision

Init ==
  /\ InitGateway /\ ProxyAtRest /\ InitLimiterOfApp /\ PricingAtRest
  /\ AttemptAtRest

Next ==
  \/ \E r \in Reqs :
       \/ GetReceive(r)
       \/ GetSelectInstance(r)
       \/ GetFetch(r)
       \/ GetBody(r)
       \/ GetLogSuccess(r)
       \/ GetDeduct(r)
       \/ GetLogError(r)
       \/ PostReceive(r)
       \/ PostSession(r)
       \/ PostApiKey(r)
       \/ PostCheckCredits(r)
       \/ PostFetch(r)
       \/ PostBody(r)
       \/ PostBodyAgain(r)
       \/ PostLogError(r)
       \/ PostCount(r)
  \/ \E p \in Payments :
       \/ CreateIntentReceive(p)
       \/ CreateIntentSession(p)
       \/ CreateIntentCreated(p)
       \/ CreateIntentInsert(p)
  \/ \E d \in Deliveries :
       \/ Webhook(d)
       \/ RetrieveIntent(d)
       \/ SelectStoredIntent(d)
       \/ CheckExisting(d)
       \/ InsertPurchase(d)
       \/ ReadCredits(d)
       \/ WriteCredits(d)
       \/ WriteCreditsFails(d)
       \/ UpdateIntentStatus(d)
  \/ \E h \in Hooks :
       \/ SignInReceive(h)
       \/ SessionCreated(h)
       \/ HookMember(h)
       \/ HookSessionUpdate(h)
       \/ HookCredits(h)
       \/ HookInsert(h)
       \/ HookUser(h)
       \/ HookOrgInsert(h)
       \/ HookMemberInsert(h)
       \/ HookSessionUpdateNew(h)
       \/ HookInsertNew(h)
  \/ \E k \in KeyOps :
       \/ KeyReceive(k)
       \/ KeySession(k)
       \/ KeyCredits(k)
       \/ KeyCount(k)
       \/ KeyInsert(k)
       \/ KeyLookup(k)
       \/ KeyWrite(k)

Spec == Init /\ [][Next]_vars

\* ------------------------------------------ the upstream instance of a search
\* the registry holds any rows; nothing in the repository writes the table
InitProxy ==
  /\ GatewayAtRest /\ LimiterAtRest /\ PricingAtRest
  /\ AttemptAtRest
  /\ app = "app.ts" /\ env \in SearxngUrlEnv
  /\ serpConfiguration \in [Instances -> UNION {ConfigurationRows(i) : i \in Instances}]
  /\ \A i \in Instances : serpConfiguration[i] \in ConfigurationRows(i)

\* one search request, of either handler, from its receipt to its response
NextProxy ==
  \/ GetReceive(1)
  \/ GetSelectInstance(1)
  \/ GetFetch(1)
  \/ GetBody(1)
  \/ GetLogSuccess(1)
  \/ GetDeduct(1)
  \/ GetLogError(1)
  \/ PostReceive(1)
  \/ PostSession(1)
  \/ PostApiKey(1)
  \/ PostCheckCredits(1)
  \/ PostFetch(1)
  \/ PostBody(1)
  \/ PostBodyAgain(1)
  \/ PostLogError(1)
  \/ PostCount(1)

SpecProxy == InitProxy /\ [][NextProxy]_vars

\* --------------------------------------------- the rate limiters on their own
\* a window of checkRateLimit in which all but MaxBurst of the requests it
\* admits have been admitted
AdmittedBefore == CheckRateLimitCeiling - MaxBurst

\* the Maps are empty when the process starts; checkRateLimit is followed
\* from there and from a window of BusyClient opened at time 0
InitLimiter ==
  /\ GatewayAtRest /\ ProxyAtRest /\ PricingAtRest
  /\ AttemptAtRest /\ app = "app.ts" /\ env = Undefined
  /\ now = 0
  /\ requestCounts = NoClients
  /\ decision = NoDecision
  /\ \/ /\ rateLimitMap = NoClients
        /\ windows = NoWindows
     \/ /\ rateLimitMap = BusyMap(AdmittedBefore, CheckRateLimitWindowMs)
        /\ windows =
             [NoWindows EXCEPT !["checkRateLimit"][BusyClient] =
                [open |-> TRUE, start |-> 0, admitted |-> AdmittedBefore]]

NextLimiter ==
  \/ \E clientId \in ClientIds : rateLimit(clientId)
  \/ \E clientId \in ClientIds : checkRateLimit(clientId)
  \/ Tick

SpecLimiter == InitLimiter /\ [][NextLimiter]_vars

\* ------------------------------------------------ the pricing table on its own
InitPricing ==
  /\ GatewayAtRest /\ ProxyAtRest /\ LimiterAtRest
  /\ AttemptAtRest /\ app = "app.ts" /\ env = Undefined
  /\ \E amountCents \in Amounts :
       pricing = [NoPricing EXCEPT !.op = "input", !.amountCents = amountCents]

NextPricing ==
  \/ getPricingPlans
  \/ getPlans
  \/ CalculateCredits

SpecPricing == InitPricing /\ [][NextPricing]_vars

\* ------------------------------------------- the upstream attempts on their own
InitAttempt ==
  /\ GatewayAtRest /\ ProxyAtRest /\ LimiterAtRest /\ PricingAtRest
  /\ app = "app.ts" /\ env = Undefined
  /\ attempt = [a \in Attempts |-> IdleAttempt]

NextAttempt ==
  \E a \in Attempts :
    \/ AttemptStart(a)
    \/ FetchResolves(a)
    \/ BodyRead(a)
    \/ BodyReadAgain(a)
    \/ TimeoutFires(a)

\* An upstream that answers does answer, one that sends its body completes
\* it, and a timer that stays armed fires.
SpecAttempt ==
  /\ InitAttempt /\ [][NextAttempt]_vars
  /\ \A a \in Attempts :
       /\ WF_vars(FetchResolves(a))
       /\ WF_vars(BodyRead(a))
       /\ WF_vars(BodyReadAgain(a))
       /\ WF_vars(TimeoutFires(a))

\* ------------------------------- the search requests close to a limiter's ceiling
\* The process runs one of the two application files. Both organizations
\* have a balance. The limiter Maps are empty, or BusyClient has a window
\* open in which all but MaxBurst of the requests the first limiter of the
\* file admits have been admitted.
InitRoute ==
  /\ ProxyAtRest /\ PricingAtRest /\ AttemptAtRest
  /\ workspaceCredits =
       <<InitRow(TempOrg, MaxInitBalance), InitRow(OtherOrg, MaxInitBalance)>>
  /\ creditPurchases = <<>>
  /\ stripePaymentIntents = StoredIntents(Payments)
  /\ serpSearchResults = [r \in Reqs |-> <<>>]
  /\ apiKeys = InitApiKeys
  /\ req = [r \in Reqs |-> IdleReq]
  /\ dlv = [d \in Deliveries |-> IdleDlv]
  /\ intent = [p \in Payments |-> IdleIntent]
  /\ hook = [h \in Hooks |-> IdleHook]
  /\ keyOp = [k \in KeyOps |-> IdleKeyOp]
  /\ now = 0 /\ windows = NoWindows /\ decision = NoDecision
  /\ app \in Apps /\ env = Undefined
  /\ \/ /\ requestCounts = NoClients
        /\ rateLimitMap = NoClients
     \/ /\ app = "app.ts"
        /\ requestCounts =
             BusyMap(AppRateLimitMax - MaxBurst, AppRateLimitWindowMs)
        /\ rateLimitMap = NoClients
     \/ /\ app = "src/app.ts"
        /\ requestCounts = NoClients
        /\ rateLimitMap = BusyMap(AdmittedBefore, CheckRateLimitWindowMs)

NextRoute ==
  \E r \in Reqs :
    \/ GetReceive(r)
    \/ GetSelectInstance(r)
    \/ GetFetch(r)
    \/ GetBody(r)
    \/ GetLogSuccess(r)
    \/ GetDeduct(r)
    \/ GetLogError(r)
    \/ PostReceive(r)
    \/ PostSession(r)
    \/ PostApiKey(r)
    \/ PostCheckCredits(r)
    \/ PostFetch(r)
    \/ PostBody(r)
    \/ PostBodyAgain(r)
    \/ PostLogError(r)
    \/ PostCount(r)

SpecRoute == InitRoute /\ [][NextRoute]_vars

\* ----------------------------------- webhook deliveries with failing top-ups
NextSettle ==
  \E d \in Deliveries :
    \/ Webhook(d)
    \/ RetrieveIntent(d)
    \/ SelectStoredIntent(d)
    \/ CheckExisting(d)
    \/ InsertPurchase(d)
    \/ ReadCredits(d)
    \/ WriteCredits(d)
    \/ WriteCreditsFails(d)
    \/ UpdateIntentStatus(d)
    \/ Redeliver(d)

\* A handler that has been entered runs on to its response, and the payment
\* processor keeps redelivering an event that was not answered 2xx.
SpecSettle ==
  /\ Init /\ [][NextSettle]_vars
  /\ \A d \in Deliveries :
       /\ WF_vars(RetrieveIntent(d))
       /\ WF_vars(SelectStoredIntent(d))
       /\ WF_vars(CheckExisting(d))
       /\ WF_vars(InsertPurchase(d))
       /\ WF_vars(ReadCredits(d))
       /\ WF_vars(WriteCredits(d) \/ WriteCreditsFails(d))
       /\ WF_vars(UpdateIntentStatus(d))
       /\ WF_vars(Redeliver(d))

\* =================================================================== claims
\* the credit cost of a request of the GET handler: the cost of its first
\* engine in the cost table, 1 for an engine the table has no cost for
RequestCost(r) ==
  LET cost == creditCost(primaryEngine(req[r].engines))
  IN IF cost.number THEN cost.value ELSE 1

\* the credit_purchases rows of a payment
PurchasesOf(pid) ==
  SelectSeq(creditPurchases, LAMBDA row : row.paymentId = pid)

\* no search request and no payment settlement of the organization is in flight
Quiescent(org) ==
  /\ \A r \in Reqs : req[r].org = org => req[r].pc \in {"idle", "done"}
  /\ \A d \in Deliveries :
       dlv[d].pc \notin {"idle", "done"} => PaymentOrg(dlv[d].pid) # org

\* the deliveries of a payment that have executed the top-up statement
ToppedUp(pid) ==
  {d \in Deliveries : dlv[d].pid = pid /\ dlv[d].pc \in {"status", "done"}
                      /\ dlv[d].writes >= 2}

\* the deliveries of a payment were handled one after the other
Sequential(pid) ==
  \A d \in Deliveries : dlv[d].pid = pid => ~dlv[d].concurrent

\* nothing but deliveries of this payment has run
OnlyPayment(pid) ==
  /\ \A r \in Reqs : req[r].pc = "idle"
  /\ \A h \in Hooks : hook[h].pc = "idle"
  /\ \A d \in Deliveries : dlv[d].pid \in {pid, Undefined}

\* C1: for every account, in every reachable state, the stored credit
\* balance is >= 0.
C1_BalanceNonNegative ==
  \A i \in DOMAIN workspaceCredits : workspaceCredits[i].balance >= 0

\* C2: two search requests of one account that both run against a balance of
\* exactly 1 credit never both succeed.
C2_NotBothServed ==
  \A r1, r2 \in Reqs :
    ( /\ r1 # r2
      /\ req[r1].org = req[r2].org
      /\ req[r1].admitRow /\ req[r1].admitBalance = 1
      /\ req[r2].admitRow /\ req[r2].admitBalance = 1
      /\ \A d \in Deliveries : dlv[d].pc = "idle" )
    => ~(req[r1].outcome = "success" /\ req[r2].outcome = "success")

\* C3: a search request is served only if the account's balance at admission
\* is at least the credit cost of the request.
C3_ServedOnlyIfCovered ==
  \A r \in Reqs :
    req[r].outcome = "success" =>
      (req[r].admitRow /\ req[r].admitBalance >= RequestCost(r))

\* C4: whenever no search request or payment settlement of an account is in
\* flight, balance = totalPurchased - totalUsed in the account's row.
C4_LedgerEquation ==
  \A org \in Orgs :
    Quiescent(org) =>
      \A i \in DOMAIN workspaceCredits :
        workspaceCredits[i].organizationId = org =>
          workspaceCredits[i].balance =
            workspaceCredits[i].totalPurchased - workspaceCredits[i].totalUsed

\* C5: when the deliveries of one payment-succeeded event are processed one
\* after the other, there is at most one credit_purchases row for the payment
\* and the top-up is executed at most once; a delivery that finds the payment
\* already applied has written nothing, and then exactly one row and one
\* top-up exist. When nothing else has run, total_purchased shows one
\* payment's credits on top of what the row started with.
C5_RedeliveryIsNoOp ==
  \A pid \in Payments :
    Sequential(pid) =>
      /\ Len(PurchasesOf(pid)) <= 1
      /\ Cardinality(ToppedUp(pid)) <= 1
      /\ \A d \in Deliveries :
           (dlv[d].pid = pid /\ dlv[d].outcome = "already_applied") =>
             /\ dlv[d].writes = 0
             /\ Len(PurchasesOf(pid)) = 1
             /\ Cardinality(ToppedUp(pid)) = 1
             /\ OnlyPayment(pid) =>
                  SelectCredits(PaymentOrg(pid)).totalPurchased \in
                    {calculateCredits(PaymentAmount(pid)).credits,
                     calculateCredits(500).credits
                       + calculateCredits(PaymentAmount(pid)).credits}

\* C6: after deliveries of the same payment-succeeded event, processed
\* concurrently or not, at most one credit_purchases row exists for the
\* payment and the top-up is executed at most once.
C6_AtMostOnePurchase ==
  \A pid \in Payments :
    /\ Len(PurchasesOf(pid)) <= 1
    /\ Cardinality(ToppedUp(pid)) <= 1

\* C7: a webhook delivery whose signature header is missing or whose
\* signature does not verify is rejected in the step that receives it (400
\* by the handler, or 429 by the rate limiter in front of it) and changes
\* none of credit_purchases, workspace_credits and stripe_payment_intents.
C7_UnverifiedNeverWrites ==
  [][\A d \in Deliveries :
       (dlv'[d] # dlv[d] /\ dlv'[d].sig \in {"missing", "invalid"}) =>
         /\ dlv'[d].pc = "done"
         /\ \/ dlv'[d].outcome = "rejected" /\ dlv'[d].status = 400
            \/ dlv'[d].outcome = "rate_limited" /\ dlv'[d].status = 429
         /\ dlv'[d].writes = 0
         /\ UNCHANGED <<creditPurchases, workspaceCredits, stripePaymentIntents>>
    ]_vars

\* a delivery with a signature that does not verify has been rejected
C7_Witness ==
  \E d \in Deliveries : dlv[d].sig = "invalid" /\ dlv[d].outcome = "rejected"

\* C8: no step of a search request whose upstream attempt has failed changes
\* workspace_credits (balance and totalUsed stay as they were), and such a
\* request has charged nothing when it ends.
C8_FailedRequestFree ==
  [][\A r \in Reqs :
       (req'[r] # req[r] /\ req'[r].upstream = "failed") =>
         /\ UNCHANGED workspaceCredits
         /\ req'[r].charged = 0
    ]_vars

\* a request on an account with a positive balance has ended after a failed
\* upstream attempt
C8_Witness ==
  \E r \in Reqs :
    /\ req[r].pc = "done" /\ req[r].upstream = "failed"
    /\ req[r].admitRow /\ req[r].admitBalance > 0

\* C9: every search request whose upstream attempt failed has, when it ends,
\* written exactly one usage record, with status error, and is answered with
\* the upstream-failure error.
C9_OneErrorRecord ==
  \A r \in Reqs :
    (req[r].pc = "done" /\ req[r].upstream = "failed") =>
      /\ Len(serpSearchResults[r]) = 1
      /\ serpSearchResults[r][1].status = "error"
      /\ req[r].outcome = "upstream_failure"

\* C10: every search request answered with a success response has debited
\* the account's balance, by the engine-specific cost of the request.
C10_SuccessIsDebited ==
  \A r \in Reqs :
    req[r].outcome = "success" => req[r].charged = RequestCost(r)

\* the instances the registry offers a search: the active healthy rows, or
\* the static default list when there is none
Candidates ==
  IF HealthyInstances # {}
    THEN {serpConfiguration[i].instanceUrl : i \in HealthyInstances}
    ELSE {DEFAULT_SEARXNG_INSTANCES[k] : k \in DOMAIN DEFAULT_SEARXNG_INSTANCES}

\* the instances a request has been sent to
Attempted(r) == {req[r].attempts[k] : k \in DOMAIN req[r].attempts}

\* C11: a search request is answered with the upstream-failure error after a
\* failed upstream attempt only when it has attempted every candidate
\* instance or made 3 attempts; with a second healthy candidate it is not
\* failed after a single failed attempt.
C11_FailoverBeforeFailure ==
  \A r \in Reqs :
    ( /\ req[r].pc = "done" /\ req[r].upstream = "failed"
      /\ req[r].outcome = "upstream_failure" )
    => (Len(req[r].attempts) >= 3 \/ Candidates \subseteq Attempted(r))

\* C12: every instance a search is sent to is an active healthy instance of
\* the highest priority among the active healthy ones when there is one, and
\* the first entry of the static default list when there is none.
C12_HighestPriorityHealthy ==
  \A r \in Reqs :
    \A k \in DOMAIN req[r].attempts :
      IF HealthyInstances # {}
        THEN \E i \in FirstByPriority :
               req[r].attempts[k] = serpConfiguration[i].instanceUrl
        ELSE req[r].attempts[k] = DEFAULT_SEARXNG_INSTANCES[1]

\* the ceiling and the window a limiter works with
Ceiling(limiter) ==
  IF limiter = "rateLimit" THEN MaxRequests ELSE CheckRateLimitCeiling
WindowOf(limiter) ==
  IF limiter = "rateLimit" THEN WindowMs ELSE CheckRateLimitWindowMs
MapOf(limiter) ==
  IF limiter = "rateLimit" THEN requestCounts ELSE rateLimitMap

\* C13: for every limiter and client, no window has more than the ceiling of
\* admitted requests; a request of a client whose current window has admitted
\* the ceiling is answered 429 and leaves the client's counter as it was.
C13_CeilingPerWindow ==
  [][\A limiter \in {"rateLimit", "checkRateLimit"}, clientId \in ClientIds :
       /\ windows'[limiter][clientId].admitted <= Ceiling(limiter)
       /\ ( /\ decision'.limiter = limiter /\ decision'.clientId = clientId
            /\ now' = now
            /\ windows[limiter][clientId].open
            /\ now <= windows[limiter][clientId].start + WindowOf(limiter)
            /\ windows[limiter][clientId].admitted = Ceiling(limiter) )
          => /\ ~decision'.admitted /\ decision'.status = 429
             /\ requestCounts' = requestCounts /\ rateLimitMap' = rateLimitMap
             /\ windows' = windows
    ]_vars

\* a request was answered 429 after the ceiling had been admitted in the window
C13_Witness ==
  \E limiter \in {"rateLimit", "checkRateLimit"}, clientId \in ClientIds :
    /\ decision.limiter = limiter /\ decision.clientId = clientId
    /\ decision.status = 429
    /\ windows[limiter][clientId].admitted = Ceiling(limiter)

\* C14: a request that arrives after the client's window has elapsed (now >
\* resetTime) is admitted, also when that window had admitted its ceiling,
\* and leaves the client with count = 1 and resetTime = now + window.
C14_NewWindowAdmits ==
  [][\A limiter \in {"rateLimit", "checkRateLimit"}, clientId \in ClientIds :
       ( /\ now' = now
         /\ decision'.limiter = limiter /\ decision'.clientId = clientId
         /\ MapOf(limiter)[clientId].present
         /\ now > MapOf(limiter)[clientId].resetTime )
       => /\ decision'.admitted /\ decision'.status = 200
          /\ decision'.afterElapsed
          /\ MapOf(limiter)'[clientId] =
               [present |-> TRUE, count |-> 1,
                resetTime |-> now + WindowOf(limiter)]
    ]_vars

\* a request was admitted after a window that had admitted its ceiling
C14_Witness ==
  /\ decision.admitted /\ decision.afterExhausted
  /\ MapOf(decision.limiter)[decision.clientId].count = 1
  /\ MapOf(decision.limiter)[decision.clientId].resetTime =
       now + WindowOf(decision.limiter)

\* the request has reached the upstream, the ledger or the usage records
Served(r) ==
  \/ req[r].pc \in {"fetch", "body", "body_again", "log_success", "log_error",
                    "deduct", "count"}
  \/ req[r].upstream # "none"
  \/ req[r].charged # 0
  \/ serpSearchResults[r] # <<>>
  \/ req[r].outcome = "success"

\* C15: a search request whose credential does not resolve to an active API
\* key or session is rejected as unauthenticated, with no upstream call, no
\* debit and no usage record; and no request is served on behalf of an
\* organization other than the one its credential belongs to.
C15_OnlyOwnCredential ==
  \A r \in Reqs :
    /\ req[r].credential = "unresolved" =>
         /\ req[r].pc = "done" /\ req[r].outcome = "unauthenticated"
         /\ ~Served(r)
    /\ Served(r) => req[r].org = req[r].credOrg

\* the request names an engine outside the supported set
NamesUnsupported(r) ==
  \E i \in DOMAIN req[r].param : req[r].param[i] \notin SUPPORTED_ENGINES

\* C16: a search request that names an engine outside the supported set is
\* rejected with a 4xx error, with no upstream call, no debit and no usage
\* record.
C16_UnsupportedEngineRejected ==
  \A r \in Reqs :
    NamesUnsupported(r) =>
      /\ req[r].pc = "done"
      /\ req[r].status >= 400 /\ req[r].status <= 499
      /\ ~Served(r)

\* C17: calculateCredits gives one result per amount, and on the boundary
\* amounts it gives the tier of the table: 5 and 29 USD floor(a / 0.80 *
\* 1000) at 0%, 30 and 99 USD floor(a / 0.65 * 1000) at 33%, 100 and 499 USD
\* floor(a / 0.45 * 1000) at 78%, 500 and 2000 USD floor(a / 0.30 * 1000) at
\* 220%; 4.99 and 2000.01 USD are rejected.
C17_TierBoundaries ==
  LET is(credits, discountPercent) ==
        pricing.ok /\ pricing.credits = credits
        /\ pricing.discountPercent = discountPercent
  IN pricing.op = "calculated" =>
       /\ pricing.amountCents = 500 => is(6250, 0)
       /\ pricing.amountCents = 2900 => is(36250, 0)
       /\ pricing.amountCents = 3000 => is(46153, 33)
       /\ pricing.amountCents = 9900 => is(152307, 33)
       /\ pricing.amountCents = 10000 => is(222222, 78)
       /\ pricing.amountCents = 49900 => is(1108888, 78)
       /\ pricing.amountCents = 50000 => is(1666666, 220)
       /\ pricing.amountCents = 200000 => is(6666666, 220)
       /\ pricing.amountCents \in {499, 200001} => ~pricing.ok
       /\ <<pricing.ok, pricing.credits, pricing.discountPercent>> =
            <<calculateCredits(pricing.amountCents).ok,
              calculateCredits(pricing.amountCents).credits,
              calculateCredits(pricing.amountCents).discountPercent>>

\* a boundary amount between two tiers has been priced
C17_Witness ==
  /\ pricing.op = "calculated" /\ pricing.endpoint = "none"
  /\ pricing.amountCents = 3000 /\ pricing.ok

\* C18: for every plan a pricing endpoint quotes, the quoted credits are the
\* credits calculateCredits grants for a payment of the plan's price.
C18_QuoteIsGrant ==
  (pricing.op = "calculated" /\ pricing.endpoint # "none") =>
    (pricing.ok /\ pricing.quotedCredits = pricing.credits)

\* C19: the credits-used figure of a success response is the number of
\* credits debited from the organization's balance for the request.
C19_ReportedIsDebited ==
  \A r \in Reqs :
    req[r].outcome = "success" =>
      (req[r].reportedNumbers /\ req[r].creditsUsed = req[r].charged)

\* nothing but this request has run
OnlyRequest(r) ==
  /\ \A other \in Reqs \ {r} : req[other].pc = "idle"
  /\ \A h \in Hooks : hook[h].pc = "idle"
  /\ \A d \in Deliveries : dlv[d].pc = "idle"

\* C20: when nothing else has run on the account, the balance a success
\* response reports is the stored balance after the request's debit.
C20_ReportedBalanceIsStored ==
  \A r \in Reqs :
    ( /\ req[r].outcome = "success"
      /\ OnlyRequest(r)
      /\ SelectCredits(req[r].org).found )
    => /\ req[r].reportedNumbers
       /\ req[r].balanceReported = SelectCredits(req[r].org).balance

\* C21: a search request that reached the upstream attempt and has been
\* answered has written exactly one usage record, and the record's status is
\* the outcome of the request: success for a success response, error for
\* any other. No request has both a success and an error record.
C21_OneRecordPerOutcome ==
  \A r \in Reqs :
    /\ ~\E i, j \in DOMAIN serpSearchResults[r] :
          /\ serpSearchResults[r][i].status = "success"
          /\ serpSearchResults[r][j].status = "error"
    /\ (req[r].pc = "done" /\ req[r].upstream # "none") =>
         /\ Len(serpSearchResults[r]) = 1
         /\ serpSearchResults[r][1].status =
              IF req[r].outcome = "success" THEN "success" ELSE "error"

\* C22: in both handlers a request whose upstream attempt was answered 2xx
\* with a well-formed result list ends with a success response (200), a
\* debit of the organization's row and a usage record with status success.
C22_UpstreamSuccessSettles ==
  \A r \in Reqs :
    (req[r].pc = "done" /\ req[r].upstream = "ok") =>
      /\ req[r].outcome = "success" /\ req[r].status = 200
      /\ req[r].charged >= 1
      /\ \E i \in DOMAIN serpSearchResults[r] :
           serpSearchResults[r][i].status = "success"

\* C23: every upstream attempt that was started ends, with the results or
\* with a failure, whatever the upstream does: also when it never answers
\* and when it never completes the body of its answer.
C23_EveryAttemptEnds ==
  \A a \in Attempts :
    (attempt[a].pc # "idle") ~> (attempt[a].pc = "done")

\* C24: when a delivery of a verified payment-succeeded event was answered
\* with a failure after its credit_purchases row had been inserted, a
\* delivery of that event eventually executes the top-up.
C24_TopUpEventuallyLands ==
  \A pid \in Payments :
    (\E d \in Deliveries :
       /\ dlv[d].pid = pid /\ dlv[d].outcome = "failed"
       /\ dlv[d].writes = 1 /\ PurchasesOf(pid) # <<>>)
    ~> (\E d \in Deliveries : dlv[d].pid = pid /\ dlv[d].writes >= 2)

\* the limiters in front of the handler of a request: the one the
\* application file mounts and, on the GET route, checkRateLimit
LimitersOf(r) ==
  {appUse(app)[i] : i \in DOMAIN appUse(app)} \cup
  (IF req[r].handler = "GET" THEN {"checkRateLimit"} ELSE {})

\* the request has read or written the ledger, reached the upstream or
\* written a usage record
Touched(r) ==
  \/ Served(r)
  \/ req[r].pc = "credits"
  \/ req[r].outcome = "insufficient_credits"

\* C25: a request a rate limiter rejected has been answered 429 and has had
\* no effect on the ledger, the upstream or the usage records; and a request
\* that has had such an effect has passed every limiter in front of its
\* handler.
C25_RejectedTouchesNothing ==
  \A r \in Reqs :
    /\ req[r].limitedBy # "none" =>
         /\ req[r].pc = "done" /\ req[r].status = 429
         /\ ~Touched(r)
    /\ Touched(r) => LimitersOf(r) \subseteq req[r].passed

\* one request was rejected by a limiter and another was served and charged
C25_Witness ==
  \E r1, r2 \in Reqs :
    /\ req[r1].pc = "done" /\ req[r1].limitedBy = "checkRateLimit"
    /\ req[r2].pc = "done" /\ req[r2].status = 200
    /\ req[r2].charged >= 1

\* C26: two requests that carried a credential of an account and were
\* counted or rejected by the same limiter were counted against the same
\* counter exactly when they came from the same account.
C26_CounterPerAccount ==
  \A r1, r2 \in Reqs, limiter \in {"rateLimit", "checkRateLimit"} :
    ( /\ r1 # r2
      /\ req[r1].credOrg # Undefined /\ req[r2].credOrg # Undefined
      /\ limiter \in req[r1].passed \cup {req[r1].limitedBy}
      /\ limiter \in req[r2].passed \cup {req[r2].limitedBy} )
    => (req[r1].clientId = req[r2].clientId <=> req[r1].credOrg = req[r2].credOrg)

\* C27: no step of a search request or of a payment settlement removes a
\* workspace_credits row or lowers the total_used of one.
C27_TotalUsedNeverDecreases ==
  [][/\ Len(workspaceCredits') >= Len(workspaceCredits)
     /\ \A i \in DOMAIN workspaceCredits :
          /\ workspaceCredits'[i].organizationId =
               workspaceCredits[i].organizationId
          /\ workspaceCredits'[i].totalUsed >= workspaceCredits[i].totalUsed
    ]_vars

\* a search has been charged and a payment has been settled on one account
C27_Witness ==
  \E r \in Reqs, d \in Deliveries :
    /\ req[r].outcome = "success" /\ req[r].charged >= 1
    /\ dlv[d].outcome = "applied"
    /\ PaymentOrg(dlv[d].pid) = req[r].org
    /\ SelectCredits(req[r].org).totalUsed >= 1

\* C28: when two different payments of one organization have both been
\* applied and nothing else has run, the organization's balance and
\* total_purchased have grown by the credits of both payments (the balance
\* from a start of at most MaxInitBalance, total_purchased from no row or
\* from the row of one 5 USD purchase).
C28_NoTopUpLost ==
  \A d1, d2 \in Deliveries :
    ( /\ d1 # d2
      /\ dlv[d1].outcome = "applied" /\ dlv[d2].outcome = "applied"
      /\ dlv[d1].pid # dlv[d2].pid
      /\ PaymentOrg(dlv[d1].pid) = PaymentOrg(dlv[d2].pid)
      /\ \A r \in Reqs : req[r].pc = "idle"
      /\ \A h \in Hooks : hook[h].pc = "idle" )
    => LET row == SelectCredits(PaymentOrg(dlv[d1].pid))
           sum == dlv[d1].credits + dlv[d2].credits
       IN /\ row.found
          /\ row.balance - sum \in 0..MaxInitBalance
          /\ row.totalPurchased - sum \in {0, calculateCredits(500).credits}

\* C29: every organization has at most one workspace_credits row.
C29_OneRowPerAccount ==
  \A org \in Orgs :
    Cardinality({i \in DOMAIN workspaceCredits :
                   workspaceCredits[i].organizationId = org}) <= 1

\* C30: calculateCredits rejects an amount exactly when it is below 5 USD or
\* above 2000 USD; every whole-cent amount from 5.00 to 2000.00 USD gets a
\* tier and a positive credit quantity.
C30_InvalidOnlyOutsideRange ==
  pricing.op = "calculated" =>
    /\ pricing.ok <=> (pricing.amountCents >= 500 /\ pricing.amountCents <= 200000)
    /\ pricing.ok => pricing.credits >= 1

====
